---- MODULE Spec2Model ----
(***************************************************************************)
(* ESP32 <-> Tauri serial link: the host link manager and command sender   *)
(* (gui/src-tauri/src/main.rs), the device loop (backend/src/lib.rs) and   *)
(* the envelope codec (shared_crypto/src/lib.rs).                          *)
(*                                                                         *)
(* Text is modelled as Rust holds it: a String is a sequence of UTF-8      *)
(* bytes (0..255).  JSON is lexed and parsed from those bytes, base64 is   *)
(* decoded from them, and the serial wire carries them.                    *)
(***************************************************************************)
EXTENDS Integers, Sequences, FiniteSets, TLC

VARIABLES
    \* ---- host process (gui/src-tauri/src/main.rs) ----
    START,            \* the OnceLock latch: TRUE once set
    port_name_state,  \* PortNameState.0
    serial_port,      \* SharedSerialPort content: "None" or "Some"
    serial_lock,      \* holder of the SharedSerialPort mutex: Free or a GUI
                      \* thread (the reconnect thread takes and drops it
                      \* within one step)
    msg_state,        \* MessageState.0
    is_ready,         \* SimpleCryptoState.is_ready
    readers,          \* number of reconnect threads spawned
    rpc,              \* the reconnect thread's position
    reconnect_delay,  \* its local reconnect_delay
    line_buffer,      \* its local line_buffer
    events,           \* events emitted while processing the last read
    gpc,              \* each GUI thread's position
    gcall,            \* each GUI thread's current/last command and its result
    wire,             \* records written to the port, in write order
    hist,             \* observation record of the host (no effect on the code)
    \* ---- line accumulator fed from a fixed stream ----
    fr,
    \* ---- device loop (backend/src/lib.rs) ----
    dev,
    \* ---- envelope codec called on its own ----
    cr

vars == << START, port_name_state, serial_port, serial_lock, msg_state, is_ready,
           readers, rpc, reconnect_delay, line_buffer, events, gpc, gcall, wire,
           hist, fr, dev, cr >>

hostVars == << START, port_name_state, serial_port, serial_lock, msg_state,
               is_ready, readers, rpc, reconnect_delay, line_buffer, events, gpc,
               gcall, wire, hist >>

-----------------------------------------------------------------------------
(* Option<String> *)
None == [some |-> FALSE]
Some(s) == [some |-> TRUE, v |-> s]

Min(a, b) == IF a < b THEN a ELSE b

\* the sum of a sequence of numbers (halving keeps the evaluation shallow)
RECURSIVE SumSeq(_)
SumSeq(s) ==
    IF Len(s) = 0 THEN 0
    ELSE IF Len(s) = 1 THEN s[1]
    ELSE LET h == Len(s) \div 2 IN
         SumSeq(SubSeq(s, 1, h)) + SumSeq(SubSeq(s, h + 1, Len(s)))

\* the least element of a non-empty set of numbers
MinOf(S) == CHOOSE x \in S : \A y \in S : x <= y

\* the n-th smallest element of a set of numbers
Nth(S, n) == CHOOSE x \in S : Cardinality({y \in S : y < x}) = n - 1

-----------------------------------------------------------------------------
(* String literals of the sources, as UTF-8 bytes. *)

\* the field names of Command, Response and EncryptedMessage
Field ==
    [\* "action"
     action |->
       <<97,99,116,105,111,110>>,
     \* "data"
     data |->
       <<100,97,116,97>>,
     \* "status"
     status |->
       <<115,116,97,116,117,115>>,
     \* "message"
     message |->
       <<109,101,115,115,97,103,101>>,
     \* "response_to"
     response_to |->
       <<114,101,115,112,111,110,115,101,95,116,111>>,
     \* "ciphertext"
     ciphertext |->
       <<99,105,112,104,101,114,116,101,120,116>>,
     \* "nonce"
     nonce |->
       <<110,111,110,99,101>>]

\* the actions the device knows, and the statuses and messages it answers with
Reply ==
    [\* "hello"
     hello |->
       <<104,101,108,108,111>>,
     \* "ping"
     ping |->
       <<112,105,110,103>>,
     \* "status"
     status |->
       <<115,116,97,116,117,115>>,
     \* "hello_response"
     hello_response |->
       <<104,101,108,108,111,95,114,101,115,112,111,110,115,101>>,
     \* "pong"
     pong |->
       <<112,111,110,103>>,
     \* "status_response"
     status_response |->
       <<115,116,97,116,117,115,95,114,101,115,112,111,110,115,101>>,
     \* "error"
     error |->
       <<101,114,114,111,114>>,
     \* "ready"
     ready |->
       <<114,101,97,100,121>>,
     \* "🎉 Hello from ESP32! Bidirectional crypto communication works!"
     msg_hello |->
       <<240,159,142,137,32,72,101,108,108,111,32,102,114,111,109,32,69,83,80,51,50,33,32,66,105,100,105,114,101,99,116,105,111,110,97,108,32,99,114,121,112,116,111,32,99,111,109,109,117,110,105,99,97,116,105,111,110,32,119,111,114,107,115,33>>,
     \* "🏓 Pong from ESP32!"
     msg_pong |->
       <<240,159,143,147,32,80,111,110,103,32,102,114,111,109,32,69,83,80,51,50,33>>,
     \* "✅ ESP32 is running normally"
     msg_status |->
       <<226,156,133,32,69,83,80,51,50,32,105,115,32,114,117,110,110,105,110,103,32,110,111,114,109,97,108,108,121>>,
     \* "Unknown command"
     msg_unknown |->
       <<85,110,107,110,111,119,110,32,99,111,109,109,97,110,100>>,
     \* "Invalid JSON format"
     msg_invalid_json |->
       <<73,110,118,97,108,105,100,32,74,83,79,78,32,102,111,114,109,97,116>>,
     \* "ESP32 ready for commands"
     msg_ready |->
       <<69,83,80,51,50,32,114,101,97,100,121,32,102,111,114,32,99,111,109,109,97,110,100,115>>,
     \* "UART read error occurred"
     msg_uart_error |->
       <<85,65,82,84,32,114,101,97,100,32,101,114,114,111,114,32,111,99,99,117,114,114,101,100>>]

\* what the host puts before a cached message
Prefix ==
    [\* "✅ "
     plain |->
       <<226,156,133,32>>,
     \* "🔓 "
     decrypted |->
       <<240,159,148,147,32>>,
     \* "❌ Decryption error: "
     decrypt_error |->
       <<226,157,140,32,68,101,99,114,121,112,116,105,111,110,32,101,114,114,111,114,58,32>>]

-----------------------------------------------------------------------------
(* UTF-8 validation: core::str::from_utf8 / String::from_utf8. *)

IsCont(b) == b \in 128..191

\* validity of b from position i on; runs of ASCII are stepped over at once
RECURSIVE Utf8From(_, _)
Utf8From(b, i) ==
    LET high == {j \in i..Len(b) : b[j] >= 128} IN
    IF high = {} THEN TRUE
    ELSE LET p == MinOf(high)
             c == b[p]
         IN
         IF c \in 194..223
         THEN /\ p + 1 <= Len(b)
              /\ IsCont(b[p + 1])
              /\ Utf8From(b, p + 2)
         ELSE IF c \in 224..239
         THEN /\ p + 2 <= Len(b)
              /\ IF c = 224 THEN b[p + 1] \in 160..191
                 ELSE IF c = 237 THEN b[p + 1] \in 128..159
                 ELSE IsCont(b[p + 1])
              /\ IsCont(b[p + 2])
              /\ Utf8From(b, p + 3)
         ELSE IF c \in 240..244
         THEN /\ p + 3 <= Len(b)
              /\ IF c = 240 THEN b[p + 1] \in 144..191
                 ELSE IF c = 244 THEN b[p + 1] \in 128..143
                 ELSE IsCont(b[p + 1])
              /\ IsCont(b[p + 2])
              /\ IsCont(b[p + 3])
              /\ Utf8From(b, p + 4)
         ELSE FALSE

Utf8Valid(b) == Utf8From(b, 1)

-----------------------------------------------------------------------------
(* str::trim and str::find('\n') on the byte alphabet the model uses (the  *)
(* ASCII White_Space code points).                                         *)

NL == 10

IsWhitespace(b) == b \in {9, 10, 11, 12, 13, 32}

trim(s) ==
    LET keep == {i \in 1..Len(s) : ~IsWhitespace(s[i])} IN
    IF keep = {} THEN << >>
    ELSE LET lo == CHOOSE i \in keep : \A j \in keep : i <= j
             hi == CHOOSE i \in keep : \A j \in keep : j <= i
         IN SubSeq(s, lo, hi)

\* position (1-based) of the first newline, 0 when there is none
find_newline(s) ==
    LET at == {i \in 1..Len(s) : s[i] = NL} IN
    IF at = {} THEN 0 ELSE MinOf(at)

-----------------------------------------------------------------------------
(* serde_json: text to tokens.  A token is a record with a tag t; a string *)
(* token carries its unescaped bytes in v.  Values nested inside an object *)
(* or an array are outside the inputs the model enumerates.                *)

IsJsonWs(b) == b \in {9, 10, 13, 32}
IsDigit(b) == b \in 48..57

\* the byte an escape letter stands for, or -1 (\u escapes are not among the inputs)
Unescape(b) ==
    CASE b = 34 -> 34 [] b = 92 -> 92 [] b = 47 -> 47 [] b = 110 -> 10
      [] b = 114 -> 13 [] b = 116 -> 9 [] b = 98 -> 8 [] b = 102 -> 12
      [] OTHER -> -1

\* scan a string body that starts at position from: the unescaped bytes and
\* the position after the closing quote; ok = FALSE on an unterminated string,
\* a raw control character or an unknown escape
ScanString(b, from) ==
    LET \* the number of backslashes that directly precede position j
        run(j) == Cardinality({k \in 1..(j - from) : \A m \in 1..k : b[j - m] = 92})
        closers == {j \in from..Len(b) : b[j] = 34 /\ run(j) % 2 = 0}
    IN
    IF closers = {} THEN [ok |-> FALSE]
    ELSE LET close == MinOf(closers)
             body == from..(close - 1)
             escaped(q) == run(q) % 2 = 1
             lead(q) == b[q] = 92 /\ ~escaped(q)
             kept == {q \in body : ~lead(q)}
         IN
         IF \A q \in body : b[q] # 92 /\ b[q] >= 32
         THEN [ok |-> TRUE, v |-> SubSeq(b, from, close - 1), next |-> close + 1]
         ELSE IF \E q \in body : IF escaped(q) THEN Unescape(b[q]) < 0 ELSE b[q] < 32
         THEN [ok |-> FALSE]
         ELSE [ok |-> TRUE,
               v |-> [n \in 1..Cardinality(kept) |->
                        LET q == Nth(kept, n) IN
                        IF escaped(q) THEN Unescape(b[q]) ELSE b[q]],
               next |-> close + 1]

\* the first position from j on that holds no digit
SkipDigits(b, j) == MinOf({q \in j..(Len(b) + 1) : q > Len(b) \/ ~IsDigit(b[q])})

StartsWith(b, i, w) == i + Len(w) - 1 <= Len(b) /\ SubSeq(b, i, i + Len(w) - 1) = w

BadTok == [t |-> "bad"]

\* the tokens of b from position i0 on: LexFrom skips white space, LexAt takes
\* the token at i, LexString the string token whose scan is r
RECURSIVE LexFrom(_, _)
RECURSIVE LexAt(_, _)
LexString(b, r) ==
    IF r.ok THEN << [t |-> "str", v |-> r.v] >> \o LexFrom(b, r.next)
    ELSE << BadTok >>

LexAt(b, i) ==
    IF i > Len(b) THEN << >>
    ELSE IF b[i] = 123 THEN << [t |-> "{"] >> \o LexFrom(b, i + 1)
    ELSE IF b[i] = 125 THEN << [t |-> "}"] >> \o LexFrom(b, i + 1)
    ELSE IF b[i] = 91 THEN << [t |-> "["] >> \o LexFrom(b, i + 1)
    ELSE IF b[i] = 93 THEN << [t |-> "]"] >> \o LexFrom(b, i + 1)
    ELSE IF b[i] = 58 THEN << [t |-> ":"] >> \o LexFrom(b, i + 1)
    ELSE IF b[i] = 44 THEN << [t |-> ","] >> \o LexFrom(b, i + 1)
    ELSE IF b[i] = 34 THEN LexString(b, ScanString(b, i + 1))
    ELSE IF IsDigit(b[i]) THEN << [t |-> "num"] >> \o LexFrom(b, SkipDigits(b, i))
    ELSE IF StartsWith(b, i, <<110,117,108,108>>)       \* null
         THEN << [t |-> "null"] >> \o LexFrom(b, i + 4)
    ELSE IF StartsWith(b, i, <<116,114,117,101>>)       \* true
         THEN << [t |-> "bool"] >> \o LexFrom(b, i + 4)
    ELSE IF StartsWith(b, i, <<102,97,108,115,101>>)    \* false
         THEN << [t |-> "bool"] >> \o LexFrom(b, i + 5)
    ELSE << BadTok >>

LexFrom(b, i0) ==
    LexAt(b, MinOf({q \in i0..(Len(b) + 1) : q > Len(b) \/ ~IsJsonWs(b[q])}))

IsScalarTok(k) == k.t \in {"str", "null", "num", "bool"}

\* the document a token sequence holds: an object (keys and values in text
\* order), an array, a scalar, or "bad" when the text is not JSON
ParseTokens(toks) ==
    LET n == Len(toks)
        inner == IF n >= 2 THEN SubSeq(toks, 2, n - 1) ELSE << >>
        m == Len(inner)
    IN
    IF n = 0 \/ \E i \in 1..n : toks[i] = BadTok THEN [k |-> "bad"]
    ELSE IF n = 1 /\ IsScalarTok(toks[1]) THEN [k |-> "scalar", val |-> toks[1]]
    ELSE IF n >= 2 /\ toks[1].t = "{" /\ toks[n].t = "}"
         THEN IF m = 0 THEN [k |-> "obj", keys |-> << >>, vals |-> << >>]
              ELSE IF /\ m % 4 = 3
                      /\ \A q \in 0..((m - 3) \div 4) :
                            /\ inner[4 * q + 1].t = "str"
                            /\ inner[4 * q + 2].t = ":"
                            /\ IsScalarTok(inner[4 * q + 3])
                            /\ (4 * q + 4 <= m => inner[4 * q + 4].t = ",")
                   THEN [k |-> "obj",
                         keys |-> [q \in 1..((m + 1) \div 4) |-> inner[4 * q - 3].v],
                         vals |-> [q \in 1..((m + 1) \div 4) |-> inner[4 * q - 1]]]
                   ELSE [k |-> "bad"]
    ELSE IF n >= 2 /\ toks[1].t = "[" /\ toks[n].t = "]"
         THEN IF m = 0 THEN [k |-> "arr", vals |-> << >>]
              ELSE IF /\ m % 2 = 1
                      /\ \A q \in 1..m :
                            IF q % 2 = 1 THEN IsScalarTok(inner[q]) ELSE inner[q].t = ","
                   THEN [k |-> "arr", vals |-> [q \in 1..((m + 1) \div 2) |-> inner[2 * q - 1]]]
                   ELSE [k |-> "bad"]
    ELSE [k |-> "bad"]

ParseJson(text) == ParseTokens(LexFrom(text, 1))

(* serde's derived Deserialize for a struct of String / Option<String>     *)
(* fields: from a map (unknown keys ignored, a duplicate of a known key is *)
(* an error, a missing Option field is None) or from a sequence of exactly *)
(* the struct's length.                                                    *)
FieldOk(tok, optional) == tok.t = "str" \/ (optional /\ tok.t = "null")
FieldVal(tok, optional) ==
    IF optional THEN (IF tok.t = "str" THEN Some(tok.v) ELSE None) ELSE tok.v

DecodeStruct(doc, names, optional) ==
    IF doc.k = "obj"
    THEN LET occ(f) == {i \in 1..Len(doc.keys) : doc.keys[i] = names[f]}
             at(f) == CHOOSE i \in occ(f) : TRUE
         IN
         IF \A f \in 1..Len(names) :
               /\ Cardinality(occ(f)) <= 1
               /\ (occ(f) = {} => optional[f])
               /\ (occ(f) # {} => FieldOk(doc.vals[at(f)], optional[f]))
         THEN [ok |-> TRUE,
               f |-> [f \in 1..Len(names) |->
                        IF occ(f) = {} THEN None
                        ELSE FieldVal(doc.vals[at(f)], optional[f])]]
         ELSE [ok |-> FALSE]
    ELSE IF doc.k = "arr"
    THEN IF /\ Len(doc.vals) = Len(names)
            /\ \A f \in 1..Len(names) : FieldOk(doc.vals[f], optional[f])
         THEN [ok |-> TRUE,
               f |-> [f \in 1..Len(names) |-> FieldVal(doc.vals[f], optional[f])]]
         ELSE [ok |-> FALSE]
    ELSE [ok |-> FALSE]

\* the struct a decoded field list r stands for
AsCommand(r) ==
    IF r.ok THEN [ok |-> TRUE, v |-> [action |-> r.f[1], data |-> r.f[2]]]
    ELSE [ok |-> FALSE]

AsResponse(r) ==
    IF r.ok THEN [ok |-> TRUE,
                  v |-> [status |-> r.f[1], message |-> r.f[2], response_to |-> r.f[3]]]
    ELSE [ok |-> FALSE]

AsEncrypted(r) ==
    IF r.ok THEN [ok |-> TRUE, v |-> [ciphertext |-> r.f[1], nonce |-> r.f[2]]]
    ELSE [ok |-> FALSE]

\* serde_json::from_str::<Command>
FromStrCommand(text) ==
    AsCommand(DecodeStruct(ParseJson(text), <<Field.action, Field.data>>, <<FALSE, TRUE>>))

\* serde_json::from_str::<Response>
FromStrResponse(text) ==
    AsResponse(DecodeStruct(ParseJson(text), <<Field.status, Field.message, Field.response_to>>,
                            <<FALSE, FALSE, TRUE>>))

\* serde_json::from_str::<EncryptedMessage>
FromStrEncrypted(text) ==
    AsEncrypted(DecodeStruct(ParseJson(text), <<Field.ciphertext, Field.nonce>>,
                             <<FALSE, FALSE>>))

(* serde_json::to_string: a struct is written as an object with its fields *)
(* in declaration order, strings quoted and escaped, None as null.         *)
NeedsEscape(c) == c \in {34, 92, 10, 13, 9, 8, 12}

EscapeOf(c) ==
    CASE c = 34 -> <<92, 34>> [] c = 92 -> <<92, 92>> [] c = 10 -> <<92, 110>>
      [] c = 13 -> <<92, 114>> [] c = 9 -> <<92, 116>> [] c = 8 -> <<92, 98>>
      [] c = 12 -> <<92, 102>> [] OTHER -> <<c>>

\* (control characters written as \u00XX are not among the inputs)
RECURSIVE Escape(_)
Escape(s) ==
    LET esc == {q \in 1..Len(s) : NeedsEscape(s[q])} IN
    IF esc = {} THEN s
    ELSE LET q == MinOf(esc) IN
         SubSeq(s, 1, q - 1) \o EscapeOf(s[q]) \o Escape(SubSeq(s, q + 1, Len(s)))

Quote(s) == <<34>> \o Escape(s) \o <<34>>
\* an Option writer that writes None as the empty string
QuoteOpt_none_as_empty(o) == IF o.some THEN Quote(o.v) ELSE <<34, 34>>

QuoteOpt(o) == IF o.some THEN Quote(o.v) ELSE <<110,117,108,108>>

ToStringCommand(c) ==
    <<123>> \o Quote(Field.action) \o <<58>> \o Quote(c.action) \o <<44>>
            \o Quote(Field.data) \o <<58>> \o QuoteOpt(c.data) \o <<125>>

ToStringResponse(r) ==
    <<123>> \o Quote(Field.status) \o <<58>> \o Quote(r.status) \o <<44>>
            \o Quote(Field.message) \o <<58>> \o Quote(r.message) \o <<44>>
            \o Quote(Field.response_to) \o <<58>> \o QuoteOpt(r.response_to) \o <<125>>

ToStringEncrypted(e) ==
    <<123>> \o Quote(Field.ciphertext) \o <<58>> \o Quote(e.ciphertext) \o <<44>>
            \o Quote(Field.nonce) \o <<58>> \o Quote(e.nonce) \o <<125>>

-----------------------------------------------------------------------------
(* base64::engine::general_purpose::STANDARD: the RFC 4648 alphabet with   *)
(* canonical '=' padding; decoding rejects a length that is not a multiple *)
(* of four, any other byte, misplaced padding and non-zero trailing bits.  *)

B64Char(v) ==
    IF v < 26 THEN 65 + v
    ELSE IF v < 52 THEN 97 + (v - 26)
    ELSE IF v < 62 THEN 48 + (v - 52)
    ELSE IF v = 62 THEN 43 ELSE 47

\* the 6-bit value of a base64 character, -1 for any other byte
B64Val(c) ==
    IF c \in 65..90 THEN c - 65
    ELSE IF c \in 97..122 THEN c - 97 + 26
    ELSE IF c \in 48..57 THEN c - 48 + 52
    ELSE IF c = 43 THEN 62
    ELSE IF c = 47 THEN 63
    ELSE -1

\* byte q of b, 0 past its end
ByteAt(b, q) == IF q <= Len(b) THEN b[q] ELSE 0

Base64Encode(b) ==
    [k \in 1..(4 * ((Len(b) + 2) \div 3)) |->
        LET g == (k - 1) \div 4
            r == (k - 1) % 4
            b1 == ByteAt(b, 3 * g + 1)
            b2 == ByteAt(b, 3 * g + 2)
            b3 == ByteAt(b, 3 * g + 3)
        IN
        IF r = 0 THEN B64Char(b1 \div 4)
        ELSE IF r = 1 THEN B64Char((b1 % 4) * 16 + b2 \div 16)
        ELSE IF r = 2
             THEN IF 3 * g + 2 > Len(b) THEN 61 ELSE B64Char((b2 % 16) * 4 + b3 \div 64)
        ELSE IF 3 * g + 3 > Len(b) THEN 61 ELSE B64Char(b3 % 64)]

Base64Decode(s) ==
    LET n == Len(s)
        pad == IF n >= 2 /\ s[n] = 61 /\ s[n - 1] = 61 THEN 2
               ELSE IF n >= 1 /\ s[n] = 61 THEN 1 ELSE 0
        v(q) == IF q <= n - pad THEN B64Val(s[q]) ELSE 0
        nbytes == 3 * (n \div 4) - pad
    IN
    IF n % 4 # 0 THEN [ok |-> FALSE]
    ELSE IF \E q \in 1..(n - pad) : B64Val(s[q]) < 0 THEN [ok |-> FALSE]
    ELSE IF pad = 2 /\ v(n - 2) % 16 # 0 THEN [ok |-> FALSE]
    ELSE IF pad = 1 /\ v(n - 1) % 4 # 0 THEN [ok |-> FALSE]
    ELSE [ok |-> TRUE,
          bytes |-> [k \in 1..nbytes |->
                       LET g == (k - 1) \div 3
                           r == (k - 1) % 3
                           a == v(4 * g + 1)
                           b == v(4 * g + 2)
                           c == v(4 * g + 3)
                           d == v(4 * g + 4)
                       IN
                       IF r = 0 THEN a * 4 + b \div 16
                       ELSE IF r = 1 THEN (b % 16) * 16 + c \div 4
                       ELSE (c % 4) * 64 + d]]

-----------------------------------------------------------------------------
(* The key and the cipher.  SHA-256 and AES-256-GCM are library code; the  *)
(* model keeps their interface: a key derived from the seed, a 12-byte     *)
(* nonce, a ciphertext that is the plaintext's length plus a 16-byte tag,  *)
(* and an open that fails unless the tag matches key, nonce and body.  The *)
(* arithmetic is a stand-in: a keyed additive stream, and a tag whose      *)
(* sixteen bytes are the values at sixteen points of the polynomial (over  *)
(* the integers modulo the prime 251) whose coefficients are the nonce,    *)
(* the length and the body, so that two inputs that differ in a few bytes  *)
(* never share a tag.                                                      *)

NonceLen == 12
TagLen == 16

\* the seed strings as lengths-with-salt: "ESP32_TAURI_DEMO_KEY_2025", "test_key"
Sha256(seed) == (Len(seed) * 31 + 7) % 251

DefaultSeed == "ESP32_TAURI_DEMO_KEY_2025"

\* CryptoSystem::new
CryptoSystem_new(seed) == [key |-> Sha256(seed)]

create_default_crypto == CryptoSystem_new(DefaultSeed)

Weighted(s) == SumSeq([i \in 1..Len(s) |-> i * s[i]])

Keystream(key, nonce, i) == (key + Weighted(nonce) + 7 * i) % 256

\* x^n modulo 251, by squaring
RECURSIVE PowMod(_, _)
PowMod(x, n) ==
    IF n = 0 THEN 1
    ELSE LET h == PowMod(x, n \div 2) IN (h * h * (IF n % 2 = 1 THEN x ELSE 1)) % 251

\* the powers of the sixteen points (x^250 = 1 modulo 251)
PowTable == [x \in 2..(TagLen + 1) |-> [n \in 0..249 |-> PowMod(x, n)]]

\* the value at x of the polynomial with the coefficients nonce, length, body
Mac(key, nonce, body, x) ==
    LET s == nonce \o << Len(body) >> \o body IN
    (key + SumSeq([i \in 1..Len(s) |-> s[i] * PowTable[x][(i - 1) % 250]])) % 251

TagOf(key, nonce, body) == [j \in 1..TagLen |-> Mac(key, nonce, body, j + 1)]

\* Aes256Gcm::encrypt(nonce, plaintext): body followed by the tag
AeadSeal(key, nonce, pt) ==
    LET body == [i \in 1..Len(pt) |-> (pt[i] + Keystream(key, nonce, i)) % 256] IN
    body \o TagOf(key, nonce, body)

\* Aes256Gcm::decrypt(nonce, ciphertext)
AeadOpen(key, nonce, ct) ==
    IF Len(ct) < TagLen THEN [ok |-> FALSE]
    ELSE LET body == SubSeq(ct, 1, Len(ct) - TagLen)
             tag == SubSeq(ct, Len(ct) - TagLen + 1, Len(ct))
         IN
         IF tag # TagOf(key, nonce, body) THEN [ok |-> FALSE]
         ELSE [ok |-> TRUE,
               bytes |-> [i \in 1..Len(body) |->
                            (body[i] + 256 - Keystream(key, nonce, i)) % 256]]

\* an encrypt that seals under the nonce it drew and records another one
encrypt_nonce_not_recorded(self, plaintext, nonce_bytes) ==
    [ciphertext |-> Base64Encode(AeadSeal(self.key, nonce_bytes, plaintext)),
     nonce |-> Base64Encode([i \in 1..NonceLen |-> 0])]

\* CryptoSystem::encrypt with the nonce OsRng drew
encrypt(self, plaintext, nonce_bytes) ==
    [ciphertext |-> Base64Encode(AeadSeal(self.key, nonce_bytes, plaintext)),
     nonce |-> Base64Encode(nonce_bytes)]

(* CryptoSystem::decrypt.  Nonce::from_slice asserts that the slice is     *)
(* exactly 12 bytes long and panics otherwise; it runs before the          *)
(* ciphertext is decoded.  Outcomes: Ok(text), Err(e), or a panic.         *)
decrypt(self, encrypted) ==
    LET nonce_bytes == Base64Decode(encrypted.nonce) IN
    IF ~nonce_bytes.ok THEN [res |-> "Err", e |-> "Base64DecodeFailed"]
    ELSE IF Len(nonce_bytes.bytes) # NonceLen THEN [res |-> "Panic"]
    ELSE LET ciphertext == Base64Decode(encrypted.ciphertext) IN
         IF ~ciphertext.ok THEN [res |-> "Err", e |-> "Base64DecodeFailed"]
         ELSE LET plaintext == AeadOpen(self.key, nonce_bytes.bytes, ciphertext.bytes) IN
              IF ~plaintext.ok THEN [res |-> "Err", e |-> "DecryptionFailed"]
              ELSE IF ~Utf8Valid(plaintext.bytes)
                   THEN [res |-> "Err", e |-> "Utf8DecodeFailed"]
              ELSE [res |-> "Ok", v |-> plaintext.bytes]

\* CryptoSystem::encrypt_command / encrypt_response
encrypt_command(self, command, nonce_bytes) ==
    encrypt(self, ToStringCommand(command), nonce_bytes)

encrypt_response(self, response, nonce_bytes) ==
    encrypt(self, ToStringResponse(response), nonce_bytes)

\* `serde_json::from_str(&json).map_err(|_| CryptoError::DecryptionFailed)` on
\* what decrypt gave (d): its error and its panic pass through
from_str_or_failed(d, parsed) ==
    IF d.res # "Ok" THEN d
    ELSE IF parsed.ok THEN [res |-> "Ok", v |-> parsed.v]
    ELSE [res |-> "Err", e |-> "DecryptionFailed"]

json_of(d) == IF d.res = "Ok" THEN d.v ELSE << >>

\* CryptoSystem::decrypt_to_command / decrypt_to_response
decrypt_to_command(self, encrypted) ==
    from_str_or_failed(decrypt(self, encrypted),
                       FromStrCommand(json_of(decrypt(self, encrypted))))

decrypt_to_response(self, encrypted) ==
    from_str_or_failed(decrypt(self, encrypted),
                       FromStrResponse(json_of(decrypt(self, encrypted))))

-----------------------------------------------------------------------------
(* Host read path: the line accumulator and the classification of a line   *)
(* (start_serial_listener, the body of the read loop).                     *)

\* Display for CryptoError: the texts of the three errors decrypt can return
Display ==
    [DecryptionFailed |->
       <<229,190,169,229,143,183,229,140,150,227,129,171,229,164,177,230,149,151,227,129,151,227,129,190,227,129,151,227,129,159>>,
     Base64DecodeFailed |->
       <<66,97,115,101,54,52,227,131,135,227,130,179,227,131,188,227,131,137,227,129,171,229,164,177,230,149,151,227,129,151,227,129,190,227,129,151,227,129,159>>,
     Utf8DecodeFailed |->
       <<85,84,70,45,56,227,131,135,227,130,179,227,131,188,227,131,137,227,129,171,229,164,177,230,149,151,227,129,151,227,129,190,227,129,151,227,129,159>>]

\* `e.to_string()`
CryptoError_to_string(e) == Display[e]

\* decrypt_received_message_internal: Ok(text), Err(text of the error), or the
\* panic of decrypt
map_err_to_string(r) ==
    IF r.res = "Err" THEN [res |-> "Err", e |-> CryptoError_to_string(r.e)] ELSE r

decrypt_received_message_internal(encrypted) ==
    map_err_to_string(decrypt(create_default_crypto, encrypted))

\* `if let Ok(s) = from_utf8(&buffer[..n]) { line_buffer.push_str(s) }`:
\* a chunk that is not valid UTF-8 on its own is not appended
push_chunk(buf, chunk) == IF Utf8Valid(chunk) THEN buf \o chunk ELSE buf

\* `while let Some(pos) = line_buffer.find('\n')`: the trimmed lines taken off
\* the front of the buffer, blank ones included, and what stays in the buffer
RECURSIVE drain_lines(_)
drain_lines(buf) ==
    LET pos == find_newline(buf) IN
    IF pos = 0 THEN [lines |-> << >>, rest |-> buf]
    ELSE LET r == drain_lines(SubSeq(buf, pos + 1, Len(buf))) IN
         [lines |-> << trim(SubSeq(buf, 1, pos - 1)) >> \o r.lines, rest |-> r.rest]

\* `if !line.is_empty()`: the lines that are handed to the classification
NonEmpty(lines) == SelectSeq(lines, LAMBDA l : l # << >>)

(* The classification of one non-empty line.  st is the reader's view:     *)
(* msg (MessageState.0), ev (events emitted so far), alive (FALSE once the *)
(* thread has panicked; nothing runs after that).                          *)

\* a handling of the decrypted text that emits no event for a Response
on_decrypted_no_event(ev1, decrypted_text, inner) ==
    [msg |-> Prefix.decrypted \o (IF inner.ok THEN inner.v.message ELSE decrypted_text),
     ev |-> ev1, alive |-> TRUE]

\* `Ok(decrypted_text)`: the text is tried as a Response (inner)
on_decrypted(ev1, decrypted_text, inner) ==
    IF inner.ok
    THEN [msg |-> Prefix.decrypted \o inner.v.message,
          ev |-> Append(ev1, [kind |-> "response-received", payload |-> inner.v]),
          alive |-> TRUE]
    ELSE [msg |-> Prefix.decrypted \o decrypted_text, ev |-> ev1, alive |-> TRUE]

\* the line was an EncryptedMessage: the event is out (ev1), d is the attempt
\* to decrypt it
on_encrypted(st, ev1, d) ==
    IF d.res = "Panic" THEN [msg |-> st.msg, ev |-> ev1, alive |-> FALSE]
    ELSE IF d.res = "Err"
         THEN [msg |-> Prefix.decrypt_error \o d.e, ev |-> ev1, alive |-> TRUE]
    ELSE on_decrypted(ev1, d.v, FromStrResponse(d.v))

\* the line was no Response: it is tried as an EncryptedMessage (encrypted)
on_not_response(st, line, encrypted) ==
    IF encrypted.ok
    THEN on_encrypted(st,
                      Append(st.ev, [kind |-> "encrypted-message-received",
                                     payload |-> encrypted.v]),
                      decrypt_received_message_internal(encrypted.v))
    ELSE [msg |-> line,
          ev |-> Append(st.ev, [kind |-> "raw-message", payload |-> line]),
          alive |-> TRUE]

\* the line is tried as a Response first (response)
on_line(st, line, response) ==
    IF response.ok
    THEN [msg |-> Prefix.plain \o response.v.message,
          ev |-> Append(st.ev, [kind |-> "response-received", payload |-> response.v]),
          alive |-> TRUE]
    ELSE on_not_response(st, line, FromStrEncrypted(line))

process_host_line(st, line) ==
    IF ~st.alive THEN st ELSE on_line(st, line, FromStrResponse(line))

RECURSIVE process_host_lines(_, _)
process_host_lines(st, lines) ==
    IF lines = << >> THEN st
    ELSE process_host_lines(process_host_line(st, Head(lines)), Tail(lines))

-----------------------------------------------------------------------------
(* Bounds and inputs of the host model.                                    *)

\* open failures in a row that the model follows (the code has no limit):
\* in the backoff specification, and in the others
MaxFails == 6
LinkMaxFails == 1
\* commands the GUI threads issue in one run
MaxCalls == 3
\* written records the model remembers (the newest ones)
MaxWire == 2
\* bytes of an unfinished line that may wait in line_buffer
MaxPending == 2

\* `std::cmp::min(reconnect_delay + 1, 5)`
MaxDelay == 5

GuiThreads == {"gui1", "gui2"}
PortNames == {"COM3", "COM4"}
Free == "free"

\* nonces OsRng can draw (the last byte of C is 61, the base64 digit '9')
Nonce ==
    [A |-> <<1,2,3,4,5,6,7,8,9,10,11,12>>,
     B |-> <<12,11,10,9,8,7,6,5,4,3,2,1>>,
     C |-> <<0,0,0,0,0,0,0,0,0,0,0,61>>]

\* "ok", "text"
Str_ok == <<111,107>>
Str_text == <<116,101,120,116>>

Response_pong == [status |-> Reply.pong, message |-> Str_ok, response_to |-> Some(Reply.ping)]

\* lines the device side of the wire can deliver, each with its newline
Line ==
    [plain |-> ToStringResponse(Response_pong) \o <<NL>>,
     sealed_response |->
       ToStringEncrypted(encrypt_response(create_default_crypto, Response_pong, Nonce.A))
         \o <<NL>>,
     sealed_text |->
       ToStringEncrypted(encrypt(create_default_crypto, Str_text, Nonce.B)) \o <<NL>>,
     \* {"ciphertext":"AAAA","nonce":"!!!!"}: the nonce is not base64
     bad_base64 |->
       <<123,34,99,105,112,104,101,114,116,101,120,116,34,58,34,65,65,65,65,34,44,34,110,111,110,99,101,34,58,34,33,33,33,33,34,125,10>>,
     \* {"ciphertext":"","nonce":""}: the nonce decodes to zero bytes
     empty_nonce |->
       <<123,34,99,105,112,104,101,114,116,101,120,116,34,58,34,34,44,34,110,111,110,99,101,34,58,34,34,125,10>>,
     \* hi
     raw |->
       <<104,105,10>>,
     \* {"status":"pong","message":"ok","ciphertext":"AAAA","nonce":"AAAA"}
     response_with_envelope |->
       <<123,34,115,116,97,116,117,115,34,58,34,112,111,110,103,34,44,34,109,101,115,115,97,103,101,34,58,34,111,107,34,44,34,99,105,112,104,101,114,116,101,120,116,34,58,34,65,65,65,65,34,44,34,110,111,110,99,101,34,58,34,65,65,65,65,34,125,10>>]

\* what one read can return: in the specification of the whole host, in the
\* specification of the reconnect thread on its own, and in the backoff one
LinkChunks == { Line.plain }
ReaderChunks == { Line.plain, Line.sealed_response, Line.sealed_text, Line.bad_base64,
                  Line.empty_nonce, Line.raw, Line.response_with_envelope, <<104>>, <<10>> }
BackoffChunks == { Line.raw }

SendActions == { Reply.ping }
SendData == { None }
\* the nonces OsRng draws for them
SendNonces == { Nonce.A }

-----------------------------------------------------------------------------
(* The host process: main() builds the managed state; the GUI threads call *)
(* the commands; start_serial_listener spawns the reconnect thread.        *)

\* (hist.read is "off" where the outcomes of the reads are not recorded;
\* hist.trace is set where every write to the port is recorded: hist.order
\* holds the calls in the order they took the slot lock, hist.sent the pieces
\* the port accepted, each with the index of its call in hist.order and
\* whether the write took only a part of what it was given)
HostStart(read, trace) ==
    /\ START = FALSE
    /\ port_name_state = ""
    /\ serial_port = "None"
    /\ serial_lock = Free
    /\ msg_state = << >>
    /\ is_ready = TRUE
    /\ readers = 0
    /\ rpc = "none"
    /\ reconnect_delay = 1
    /\ line_buffer = << >>
    /\ events = << >>
    /\ gpc = [t \in GuiThreads |-> "idle"]
    /\ gcall = [t \in GuiThreads |-> [cmd |-> "none", res |-> "none"]]
    /\ wire = << >>
    /\ hist = [initCalled |-> FALSE, calls |-> 0, fails |-> 0, lost |-> FALSE,
               slept |-> 0, cause |-> "none", panic |-> "none", read |-> read,
               lines |-> << >>, trace |-> trace, order |-> << >>, sent |-> << >>]

HostInit == HostStart("off", FALSE)

\* a latch that refuses nothing
START_set_never_err(latch) == FALSE

\* `START.set(()).is_err()`: the latch refuses every set but the first
START_set_is_err(latch) == latch

\* start_serial_listener, up to the latch
StartLatch(t, port_name) ==
    /\ gpc[t] = "idle"
    /\ hist.calls < MaxCalls
    /\ hist' = [hist EXCEPT !.calls = @ + 1]
    /\ IF START_set_is_err(START)
       THEN /\ gcall' = [gcall EXCEPT ![t] = [cmd |-> "start_serial_listener", res |-> "Ok"]]
            /\ UNCHANGED << START, gpc >>
       ELSE /\ START' = TRUE
            /\ gpc' = [gpc EXCEPT ![t] = "start_store"]
            /\ gcall' = [gcall EXCEPT ![t] = [cmd |-> "start_serial_listener",
                                             res |-> "pending", port_name |-> port_name]]
    /\ UNCHANGED << port_name_state, serial_port, serial_lock, msg_state, is_ready,
                    readers, rpc, reconnect_delay, line_buffer, events, wire, fr, dev, cr >>

\* `port_lock.0 = port_name.clone()`
StartStore(t) ==
    /\ gpc[t] = "start_store"
    /\ port_name_state' = gcall[t].port_name
    /\ gpc' = [gpc EXCEPT ![t] = "start_spawn"]
    /\ UNCHANGED << START, serial_port, serial_lock, msg_state, is_ready, readers, rpc,
                    reconnect_delay, line_buffer, events, gcall, wire, hist, fr, dev, cr >>

\* `thread::spawn(...)`, `let mut reconnect_delay = 1`, `Ok(())`
StartSpawn(t) ==
    /\ gpc[t] = "start_spawn"
    /\ readers' = readers + 1
    /\ rpc' = "open"
    /\ reconnect_delay' = 1
    /\ gpc' = [gpc EXCEPT ![t] = "idle"]
    /\ gcall' = [gcall EXCEPT ![t] = [cmd |-> "start_serial_listener", res |-> "Ok"]]
    /\ UNCHANGED << START, port_name_state, serial_port, serial_lock, msg_state,
                    is_ready, line_buffer, events, wire, hist, fr, dev, cr >>

(* ---- the reconnect thread ---- *)

\* open() succeeds and try_clone() succeeds
ROpenOk ==
    /\ rpc = "open"
    /\ reconnect_delay' = 1
    /\ rpc' = "publish"
    /\ hist' = [hist EXCEPT !.fails = 0, !.lost = FALSE]
    /\ UNCHANGED << START, port_name_state, serial_port, serial_lock, msg_state,
                    is_ready, readers, line_buffer, events, gpc, gcall, wire, fr, dev, cr >>

\* open() succeeds and `port.try_clone().unwrap()` panics: the thread ends
ROpenCloneErr ==
    /\ rpc = "open"
    /\ reconnect_delay' = 1
    /\ rpc' = "dead"
    /\ hist' = [hist EXCEPT !.fails = 0, !.lost = FALSE, !.panic = "try_clone"]
    /\ UNCHANGED << START, port_name_state, serial_port, serial_lock, msg_state,
                    is_ready, readers, line_buffer, events, gpc, gcall, wire, fr, dev, cr >>

\* open() fails (followed up to `limit` failures in a row)
ROpenErr(limit) ==
    /\ rpc = "open"
    /\ hist.fails < limit
    /\ rpc' = "sleep"
    /\ hist' = [hist EXCEPT !.fails = @ + 1, !.cause = "fail"]
    /\ UNCHANGED << START, port_name_state, serial_port, serial_lock, msg_state,
                    is_ready, readers, reconnect_delay, line_buffer, events, gpc, gcall,
                    wire, fr, dev, cr >>

\* `*serial_lock = Some(port_for_writing)`, then the fresh buffer and line_buffer
RPublish ==
    /\ rpc = "publish"
    /\ serial_lock = Free
    /\ serial_port' = "Some"
    /\ line_buffer' = << >>
    /\ rpc' = "read"
    /\ hist' = [hist EXCEPT !.read = IF @ = "off" THEN @ ELSE "none"]
    /\ UNCHANGED << START, port_name_state, serial_lock, msg_state, is_ready, readers,
                    reconnect_delay, events, gpc, gcall, wire, fr, dev, cr >>

\* `Ok(0)`: wait 10 ms and read again
RReadZero ==
    /\ rpc = "read"
    /\ hist' = [hist EXCEPT !.read = IF @ = "off" THEN @ ELSE "zero"]
    /\ UNCHANGED << START, port_name_state, serial_port, serial_lock, msg_state,
                    is_ready, readers, rpc, reconnect_delay, line_buffer, events, gpc,
                    gcall, wire, fr, dev, cr >>

\* a timeout that is taken for a failure of the link
RReadTimedOut_breaks ==
    /\ rpc = "read"
    /\ rpc' = "clear"
    /\ hist' = [hist EXCEPT !.read = IF @ = "off" THEN @ ELSE "timeout"]
    /\ UNCHANGED << START, port_name_state, serial_port, serial_lock, msg_state,
                    is_ready, readers, reconnect_delay, line_buffer, events, gpc, gcall,
                    wire, fr, dev, cr >>

\* `Err(e)` with `e.kind() == TimedOut`: read again
RReadTimedOut ==
    /\ rpc = "read"
    /\ hist' = [hist EXCEPT !.read = IF @ = "off" THEN @ ELSE "timeout"]
    /\ UNCHANGED << START, port_name_state, serial_port, serial_lock, msg_state,
                    is_ready, readers, rpc, reconnect_delay, line_buffer, events, gpc,
                    gcall, wire, fr, dev, cr >>

\* `Ok(bytes_read)`: append the chunk, then take every complete line off the
\* buffer and classify it
\* (hist.lines: the non-empty lines this read completed)
RClassified(st, lines) ==
    /\ msg_state' = st.msg
    /\ events' = st.ev
    /\ rpc' = IF st.alive THEN "read" ELSE "dead"
    /\ hist' = [hist EXCEPT !.read = IF @ = "off" THEN @ ELSE "data",
                            !.lines = IF hist.read = "off" THEN @ ELSE lines,
                            !.panic = IF st.alive THEN @ ELSE "from_slice"]

RDrained(d) ==
    /\ Len(d.rest) <= MaxPending
    /\ line_buffer' = d.rest
    /\ RClassified(process_host_lines([msg |-> msg_state, ev |-> << >>, alive |-> TRUE],
                                      NonEmpty(d.lines)),
                   NonEmpty(d.lines))

RReadData(chunk) ==
    /\ rpc = "read"
    /\ RDrained(drain_lines(push_chunk(line_buffer, chunk)))
    /\ UNCHANGED << START, port_name_state, serial_port, serial_lock, is_ready, readers,
                    reconnect_delay, gpc, gcall, wire, fr, dev, cr >>

\* `Err(e)` of any other kind: `break`
RReadErr ==
    /\ rpc = "read"
    /\ rpc' = "clear"
    /\ hist' = [hist EXCEPT !.read = IF @ = "off" THEN @ ELSE "error"]
    /\ UNCHANGED << START, port_name_state, serial_port, serial_lock, msg_state,
                    is_ready, readers, reconnect_delay, line_buffer, events, gpc, gcall,
                    wire, fr, dev, cr >>

\* `*serial_lock = None` after the read loop
RClear ==
    /\ rpc = "clear"
    /\ serial_lock = Free
    /\ serial_port' = "None"
    /\ rpc' = "sleep"
    /\ hist' = [hist EXCEPT !.cause = "lost", !.lost = TRUE]
    /\ UNCHANGED << START, port_name_state, serial_lock, msg_state, is_ready, readers,
                    reconnect_delay, line_buffer, events, gpc, gcall, wire, fr, dev, cr >>

\* an increment without the cap
next_delay_uncapped(delay) == delay + 1

\* `min(reconnect_delay + 1, 5)`
next_delay(delay) == Min(delay + 1, MaxDelay)

\* `thread::sleep(Duration::from_secs(reconnect_delay))` and the increment
RSleep ==
    /\ rpc = "sleep"
    /\ hist' = [hist EXCEPT !.slept = reconnect_delay]
    /\ reconnect_delay' = next_delay(reconnect_delay)
    /\ rpc' = "open"
    /\ UNCHANGED << START, port_name_state, serial_port, serial_lock, msg_state,
                    is_ready, readers, line_buffer, events, gpc, gcall, wire, fr, dev, cr >>

(* ---- the command sender ---- *)

\* the newest MaxWire records of the wire
Remember(w) == IF Len(w) > MaxWire THEN SubSeq(w, Len(w) - MaxWire + 1, Len(w)) ELSE w

\* the record send_command writes: `serde_json::to_string(&cmd)` and a newline
plain_line ==
    [action \in SendActions, data \in SendData |->
        ToStringCommand([action |-> action, data |-> data]) \o <<NL>>]

\* the record send_lightweight_encrypted_command writes: the envelope of the
\* Command under the process-wide key, as JSON, and a newline
sealed_line ==
    [action \in SendActions, data \in SendData, nonce_bytes \in SendNonces |->
        ToStringEncrypted(encrypt_command(create_default_crypto,
                                          [action |-> action, data |-> data],
                                          nonce_bytes)) \o <<NL>>]

\* send_command: the Command and its JSON line; the caller goes on to lock
\* the connection slot
SendCommand(t, action, data) ==
    /\ gpc[t] = "idle"
    /\ hist.calls < MaxCalls
    /\ hist' = [hist EXCEPT !.calls = @ + 1]
    /\ gpc' = [gpc EXCEPT ![t] = "send_lock"]
    /\ gcall' = [gcall EXCEPT ![t] =
                    [cmd |-> "send_command", res |-> "pending",
                     line |-> plain_line[action, data]]]
    /\ UNCHANGED << START, port_name_state, serial_port, serial_lock, msg_state,
                    is_ready, readers, rpc, reconnect_delay, line_buffer, events, wire,
                    fr, dev, cr >>

\* send_lightweight_encrypted_command: the is_ready check, then the envelope
\* of the Command and its JSON line
SendEncrypted(t, action, data, nonce_bytes) ==
    /\ gpc[t] = "idle"
    /\ hist.calls < MaxCalls
    /\ hist' = [hist EXCEPT !.calls = @ + 1]
    /\ IF ~is_ready
       THEN /\ gcall' = [gcall EXCEPT ![t] =
                           [cmd |-> "send_lightweight_encrypted_command",
                            res |-> "CryptoNotReady"]]
            /\ UNCHANGED gpc
       ELSE /\ gpc' = [gpc EXCEPT ![t] = "send_lock"]
            /\ gcall' = [gcall EXCEPT ![t] =
                           [cmd |-> "send_lightweight_encrypted_command",
                            res |-> "pending",
                            line |-> sealed_line[action, data, nonce_bytes]]]
    /\ UNCHANGED << START, port_name_state, serial_port, serial_lock, msg_state,
                    is_ready, readers, rpc, reconnect_delay, line_buffer, events, wire,
                    fr, dev, cr >>

\* a caller that goes on to the port without the lock
SendLock_without_lock(t) ==
    /\ gpc[t] = "send_lock"
    /\ gpc' = [gpc EXCEPT ![t] = "send_locked"]
    /\ hist' = [hist EXCEPT !.order = IF hist.trace
                                      THEN Append(@, [by |-> t, line |-> gcall[t].line])
                                      ELSE @]
    /\ UNCHANGED << START, port_name_state, serial_port, serial_lock, msg_state, is_ready,
                    readers, rpc, reconnect_delay, line_buffer, events, gcall, wire, fr,
                    dev, cr >>

\* `serial_port_state.lock().unwrap()`
SendLock(t) ==
    /\ gpc[t] = "send_lock"
    /\ serial_lock = Free
    /\ serial_lock' = t
    /\ gpc' = [gpc EXCEPT ![t] = "send_locked"]
    /\ hist' = [hist EXCEPT !.order = IF hist.trace
                                      THEN Append(@, [by |-> t, line |-> gcall[t].line])
                                      ELSE @]
    /\ UNCHANGED << START, port_name_state, serial_port, msg_state, is_ready, readers,
                    rpc, reconnect_delay, line_buffer, events, gcall, wire, fr,
                    dev, cr >>

\* a test that takes every slot for a published one
slot_always_has_port(slot) == TRUE

\* `if let Some(port) = serial_lock.as_mut()`
slot_has_port(slot) == slot # "None"

\* the slot is empty: Err("Serial port not connected. ..."), the guard is dropped
SendNotConnected(t) ==
    /\ gpc[t] = "send_locked"
    /\ ~slot_has_port(serial_port)
    /\ serial_lock' = Free
    /\ gpc' = [gpc EXCEPT ![t] = "idle"]
    /\ gcall' = [gcall EXCEPT ![t] = [cmd |-> @.cmd, res |-> "NotConnected"]]
    /\ UNCHANGED << START, port_name_state, serial_port, msg_state, is_ready, readers,
                    rpc, reconnect_delay, line_buffer, events, wire, hist, fr, dev, cr >>

\* the index in hist.order of the call thread t is in: its latest entry
CallOf(t) ==
    IF \E i \in 1..Len(hist.order) : hist.order[i].by = t
    THEN CHOOSE i \in 1..Len(hist.order) :
            /\ hist.order[i].by = t
            /\ \A j \in (i + 1)..Len(hist.order) : hist.order[j].by # t
    ELSE 0

\* the pieces of call k the port has accepted
PiecesOf(k) == SelectSeq(hist.sent, LAMBDA piece : piece.k = k)

\* writes in one run that accept only a part of what they are given
MaxParts == 2

\* inside write_all: a `write` accepts only the first n bytes of what is left
\* of the line, and write_all goes on with the rest
SendWritePart(t, n) ==
    /\ gpc[t] = "send_locked"
    /\ slot_has_port(serial_port)
    /\ n < Len(gcall[t].line)
    /\ Len(SelectSeq(hist.sent, LAMBDA piece : piece.part)) < MaxParts
    /\ wire' = Remember(Append(wire, [by |-> t, cmd |-> gcall[t].cmd,
                                      bytes |-> SubSeq(gcall[t].line, 1, n), rpc |-> rpc]))
    /\ gcall' = [gcall EXCEPT ![t].line = SubSeq(@, n + 1, Len(@))]
    /\ hist' = [hist EXCEPT !.sent = IF hist.trace
                                     THEN Append(@, [k |-> CallOf(t), part |-> TRUE,
                                                     bytes |-> SubSeq(gcall[t].line, 1, n)])
                                     ELSE @]
    /\ UNCHANGED << START, port_name_state, serial_port, serial_lock, msg_state,
                    is_ready, readers, rpc, reconnect_delay, line_buffer, events, gpc,
                    fr, dev, cr >>

\* `port.write_all(...)` returns Ok: the line, or what was left of it, is on
\* the wire
SendWriteOk(t) ==
    /\ gpc[t] = "send_locked"
    /\ slot_has_port(serial_port)
    /\ wire' = Remember(Append(wire, [by |-> t, cmd |-> gcall[t].cmd,
                                      bytes |-> gcall[t].line, rpc |-> rpc]))
    /\ gpc' = [gpc EXCEPT ![t] = "send_written"]
    /\ hist' = [hist EXCEPT !.sent = IF hist.trace
                                     THEN Append(@, [k |-> CallOf(t), part |-> FALSE,
                                                     bytes |-> gcall[t].line])
                                     ELSE @]
    /\ UNCHANGED << START, port_name_state, serial_port, serial_lock, msg_state,
                    is_ready, readers, rpc, reconnect_delay, line_buffer, events, gcall,
                    fr, dev, cr >>

\* a failed write that empties the slot
SendWriteErr_clears_slot(t) ==
    /\ gpc[t] = "send_locked"
    /\ slot_has_port(serial_port)
    /\ serial_port' = "None"
    /\ serial_lock' = Free
    /\ gpc' = [gpc EXCEPT ![t] = "idle"]
    /\ gcall' = [gcall EXCEPT ![t] = [cmd |-> @.cmd, res |-> "WriteFailed"]]
    /\ UNCHANGED << START, port_name_state, msg_state, is_ready, readers, rpc,
                    reconnect_delay, line_buffer, events, wire, hist, fr, dev, cr >>

\* `port.write_all(...)` returns Err: Err("Failed to send ..."), the guard is dropped
SendWriteErr(t) ==
    /\ gpc[t] = "send_locked"
    /\ slot_has_port(serial_port)
    /\ serial_lock' = Free
    /\ gpc' = [gpc EXCEPT ![t] = "idle"]
    /\ gcall' = [gcall EXCEPT ![t] = [cmd |-> @.cmd, res |-> "WriteFailed"]]
    /\ UNCHANGED << START, port_name_state, serial_port, msg_state, is_ready, readers,
                    rpc, reconnect_delay, line_buffer, events, wire, hist, fr, dev, cr >>

\* a return that leaves the slot locked
SendFlushReturn_keeps_lock(t) ==
    /\ gpc[t] = "send_written"
    /\ gpc' = [gpc EXCEPT ![t] = "idle"]
    /\ gcall' = [gcall EXCEPT ![t] = [cmd |-> @.cmd, res |-> "Ok"]]
    /\ UNCHANGED << START, port_name_state, serial_port, serial_lock, msg_state, is_ready,
                    readers, rpc, reconnect_delay, line_buffer, events, wire, hist, fr,
                    dev, cr >>

\* `port.flush()` (an error is only printed), the 50 ms sleep, Ok(...); the
\* guard is dropped on return
SendFlushReturn(t) ==
    /\ gpc[t] = "send_written"
    /\ serial_lock' = Free
    /\ gpc' = [gpc EXCEPT ![t] = "idle"]
    /\ gcall' = [gcall EXCEPT ![t] = [cmd |-> @.cmd, res |-> "Ok"]]
    /\ UNCHANGED << START, port_name_state, serial_port, msg_state, is_ready, readers,
                    rpc, reconnect_delay, line_buffer, events, wire, hist, fr, dev, cr >>

\* initialize_lightweight_crypto
InitializeCrypto(t) ==
    /\ gpc[t] = "idle"
    /\ hist.calls < MaxCalls
    /\ is_ready' = TRUE
    /\ hist' = [hist EXCEPT !.initCalled = TRUE, !.calls = @ + 1]
    /\ gcall' = [gcall EXCEPT ![t] = [cmd |-> "initialize_lightweight_crypto", res |-> "Ok"]]
    /\ UNCHANGED << START, port_name_state, serial_port, serial_lock, msg_state, readers,
                    rpc, reconnect_delay, line_buffer, events, gpc, wire, fr, dev, cr >>

\* get_message: `state.lock().ok().map(|m| m.0.clone())`
GetMessage(t) ==
    /\ gpc[t] = "idle"
    /\ hist.calls < MaxCalls
    /\ hist' = [hist EXCEPT !.calls = @ + 1]
    /\ gcall' = [gcall EXCEPT ![t] = [cmd |-> "get_message", res |-> "Some",
                                             v |-> msg_state]]
    /\ UNCHANGED << START, port_name_state, serial_port, serial_lock, msg_state, is_ready,
                    readers, rpc, reconnect_delay, line_buffer, events, gpc, wire, fr,
                    dev, cr >>

Init ==
    /\ HostInit
    /\ fr = [on |-> FALSE]
    /\ dev = [on |-> FALSE]
    /\ cr = [on |-> FALSE]

\* the same, with the outcome of every read recorded in hist
InitRead ==
    /\ HostStart("none", FALSE)
    /\ fr = [on |-> FALSE]
    /\ dev = [on |-> FALSE]
    /\ cr = [on |-> FALSE]

ReaderStep(chunks, limit) ==
    \/ ROpenOk
    \/ ROpenCloneErr
    \/ ROpenErr(limit)
    \/ RPublish
    \/ RReadZero
    \/ RReadTimedOut
    \/ \E chunk \in chunks : RReadData(chunk)
    \/ RReadErr
    \/ RClear
    \/ RSleep

StartStep(t) ==
    \/ \E port_name \in PortNames : StartLatch(t, port_name)
    \/ StartStore(t)
    \/ StartSpawn(t)

SendStep(t) ==
    \/ \E action \in SendActions, data \in SendData : SendCommand(t, action, data)
    \/ \E action \in SendActions, data \in SendData, nonce_bytes \in SendNonces :
          SendEncrypted(t, action, data, nonce_bytes)
    \/ SendLock(t)
    \/ SendNotConnected(t)
    \/ SendWriteOk(t)
    \/ SendWriteErr(t)
    \/ SendFlushReturn(t)
    \/ InitializeCrypto(t)

(* The whole host: both GUI threads issue commands while the reconnect     *)
(* thread runs.                                                            *)
Next ==
    \/ ReaderStep(LinkChunks, LinkMaxFails)
    \/ \E t \in GuiThreads : StartStep(t) \/ SendStep(t)

Spec == Init /\ [][Next]_vars

(* The whole host under the scheduling the threads get: a thread waiting   *)
(* for the connection-slot lock gets it if it is free again and again, and *)
(* a thread that holds it goes on (write_all and flush return: the port    *)
(* has a 50 ms timeout).                                                   *)
Fairness ==
    \A t \in GuiThreads :
        /\ SF_vars(SendLock(t))
        /\ WF_vars(SendNotConnected(t) \/ SendWriteOk(t) \/ SendWriteErr(t))
        /\ WF_vars(SendFlushReturn(t))

SpecLive == Init /\ [][Next]_vars /\ Fairness

(* The reconnect thread on its own, started by one GUI thread, with every  *)
(* kind of line on the wire.                                               *)
NextReader ==
    \/ ReaderStep(ReaderChunks, LinkMaxFails)
    \/ StartStep("gui1")

SpecReader == Init /\ [][NextReader]_vars

(* The reconnect thread and a GUI thread that reads the cached message,    *)
(* with every kind of whole line on the wire.                              *)
NextCache ==
    \/ ReaderStep(ReaderChunks \ { <<104>>, <<10>> }, LinkMaxFails)
    \/ StartStep("gui1")
    \/ GetMessage("gui1")

SpecCache == InitRead /\ [][NextCache]_vars

(* The senders on the wire: one GUI thread sends plain commands and the    *)
(* other sealed ones, with writes the port accepts in pieces, while the    *)
(* reconnect thread                                                        *)
(* started by one of them opens the port, loses it and opens it again.     *)
InitWire ==
    /\ HostStart("off", TRUE)
    /\ fr = [on |-> FALSE]
    /\ dev = [on |-> FALSE]
    /\ cr = [on |-> FALSE]

NextWire ==
    \/ StartStep("gui1")
    \/ ROpenOk
    \/ RPublish
    \/ RReadErr
    \/ RClear
    \/ RSleep
    \/ \E action \in SendActions, data \in SendData : SendCommand("gui1", action, data)
    \/ \E action \in SendActions, data \in SendData, nonce_bytes \in SendNonces :
          SendEncrypted("gui2", action, data, nonce_bytes)
    \/ \E t \in GuiThreads :
          \/ SendLock(t)
          \/ SendNotConnected(t)
          \/ \E n \in {1, 7} : SendWritePart(t, n)
          \/ SendWriteOk(t)
          \/ SendWriteErr(t)
          \/ SendFlushReturn(t)

SpecWire == InitWire /\ [][NextWire]_vars

(* The reconnect thread on its own, with long runs of failed opens.        *)
NextBackoff ==
    \/ ReaderStep(BackoffChunks, MaxFails)
    \/ StartStep("gui1")

SpecBackoff == InitRead /\ [][NextBackoff]_vars

-----------------------------------------------------------------------------
(* The line accumulator of the read loop on its own: a byte stream arrives *)
(* in reads of any sizes, and the trimmed non-empty lines are recorded in  *)
(* the order they leave the buffer.                                        *)

\* characters a stream is made of: 'a', ' ', '\n' and the two bytes of U+00E9
FramerAlphabet == { <<97>>, <<32>>, <<10>>, <<195, 169>> }
\* characters in a stream, and bytes one read returns
MaxStream == 4
MaxChunk == 3

RECURSIVE StreamsOf(_)
StreamsOf(n) ==
    IF n = 0 THEN { << >> }
    ELSE { s \o c : s \in StreamsOf(n - 1), c \in FramerAlphabet }

FramerStreams == UNION { StreamsOf(n) : n \in 0..MaxStream }

\* what the accumulator yields for the whole of a stream in one piece
unsplit(stream) == drain_lines(push_chunk(<< >>, stream))

FramerInit ==
    /\ HostInit
    /\ fr \in { [on |-> TRUE, stream |-> stream, pos |-> 0, line_buffer |-> << >>,
                 lines |-> << >>, msg |-> << >>, ev |-> << >>] :
                   stream \in FramerStreams }
    /\ dev = [on |-> FALSE]
    /\ cr = [on |-> FALSE]

\* d is what the buffer yields after the read, st what classifying the
\* non-empty lines of d does to the cached message and the events
FrDrained(n, d, st) ==
    fr' = [fr EXCEPT !.pos = @ + n, !.line_buffer = d.rest,
                     !.lines = @ \o NonEmpty(d.lines),
                     !.msg = st.msg, !.ev = st.ev]

\* one `Ok(bytes_read)` iteration of the read loop with bytes_read = n
FrRead(n) ==
    /\ fr.on
    /\ fr.pos + n <= Len(fr.stream)
    /\ FrDrained(n,
                 drain_lines(push_chunk(fr.line_buffer,
                                        SubSeq(fr.stream, fr.pos + 1, fr.pos + n))),
                 process_host_lines(
                     [msg |-> fr.msg, ev |-> fr.ev, alive |-> TRUE],
                     NonEmpty(drain_lines(push_chunk(fr.line_buffer,
                                 SubSeq(fr.stream, fr.pos + 1, fr.pos + n))).lines)))
    /\ UNCHANGED << hostVars, dev, cr >>

NextFramer == \E n \in 1..MaxChunk : FrRead(n)

SpecFramer == FramerInit /\ [][NextFramer]_vars

\* C3 as written: once the whole stream has been read, in whatever pieces, the
\* lines recorded and the bytes still buffered are those of the unsplit stream.
C3_SplitIndependent ==
    (fr.on /\ fr.pos = Len(fr.stream))
    => /\ fr.lines = NonEmpty(unsplit(fr.stream).lines)
       /\ fr.line_buffer = unsplit(fr.stream).rest

\* the non-empty newline-terminated lines of the bytes received so far
LinesReceived == NonEmpty(drain_lines(SubSeq(fr.stream, 1, fr.pos)).lines)

\* C14 as written: at every point of a connection the events published and the
\* cache updates made are, one for one and in order, those of the non-empty
\* newline-terminated lines of the bytes received so far (the lines of the
\* streams are raw lines: one raw-message event and one cache update each).
C14_InWireOrder ==
    fr.on
    => /\ fr.lines = LinesReceived
       /\ fr.ev = [i \in 1..Len(LinesReceived) |->
                     [kind |-> "raw-message", payload |-> LinesReceived[i]]]
       /\ fr.msg = IF LinesReceived = << >> THEN << >>
                   ELSE LinesReceived[Len(LinesReceived)]

-----------------------------------------------------------------------------
(* Properties of the host.                                                 *)

\* C1: a send_command call that finds the connection slot empty returns the
\* NotConnected error and leaves the wire as it was.
C1_NotConnected ==
    [][\A t \in GuiThreads :
         (/\ gpc[t] = "send_locked"
          /\ gcall[t].cmd = "send_command"
          /\ serial_port = "None"
          /\ gpc'[t] # gpc[t])
         => (gcall'[t].res = "NotConnected" /\ wire' = wire)]_vars

\* a send_command call has come back with NotConnected from an empty slot
C1_Witness ==
    \E t \in GuiThreads :
        /\ gcall[t] = [cmd |-> "send_command", res |-> "NotConnected"]
        /\ serial_port = "None"
        /\ wire = << >>

\* C2 as written: the delay slept after the Nth failed open in a row is
\* min(N, 5), and the delay slept after a lost connection is 1.
C2_AsWritten ==
    (rpc = "open" /\ hist.cause # "none")
    => IF hist.cause = "lost" THEN hist.slept = 1
       ELSE hist.slept = Min(hist.fails, MaxDelay)

\* C2: the delay slept after a lost connection is 1; the delay slept after
\* the Nth failed open in a row is min(N, 5) when no open has succeeded since
\* the thread started, and min(N + 1, 5) when the failures follow a lost
\* connection (the sleep after the loss has already raised the delay).
C2_Backoff ==
    (rpc = "open" /\ hist.cause # "none")
    => IF hist.cause = "lost" THEN hist.slept = 1 /\ reconnect_delay = 2
       ELSE /\ hist.slept = Min(hist.fails + (IF hist.lost THEN 1 ELSE 0), MaxDelay)
            /\ reconnect_delay = Min(hist.slept + 1, MaxDelay)

\* the cap is reached by failures that follow a lost connection
C2_Witness ==
    /\ rpc = "open"
    /\ hist.cause = "fail"
    /\ hist.lost
    /\ hist.fails = MaxFails
    /\ hist.slept = MaxDelay

\* C4 as written: a line that is an EncryptedMessage never ends the reader
\* thread, whatever its ciphertext and nonce strings are.
C4_ReadLoopSurvives == ~(rpc = "dead" /\ hist.panic = "from_slice")

\* C5 as written: once the read loop has been left on a read failure, no send
\* call writes a record to the handle that is still in the slot.
C5_NoDeadHandle == \A i \in 1..Len(wire) : wire[i].rpc # "clear"

\* C6: there is never more than one reconnect thread, and a call that finds
\* the latch set returns Ok at once, spawns nothing and leaves the stored port
\* name and the connection slot alone.
C6_OneReader ==
    /\ readers <= 1
    /\ [][/\ readers' <= 1
          /\ \A t \in GuiThreads, port_name \in PortNames :
                (START /\ StartLatch(t, port_name))
                => /\ gpc'[t] = "idle"
                   /\ gcall'[t] = [cmd |-> "start_serial_listener", res |-> "Ok"]
                   /\ readers' = readers
                   /\ port_name_state' = port_name_state
                   /\ serial_port' = serial_port]_vars

\* both GUI threads have called start_serial_listener and one thread runs
C6_Witness ==
    /\ readers = 1
    /\ \A t \in GuiThreads : gcall[t] = [cmd |-> "start_serial_listener", res |-> "Ok"]

\* C7 as written: without an earlier initialize_lightweight_crypto call,
\* send_lightweight_encrypted_command ends in CryptoNotReady and writes nothing.
C7_NeedsInitialize ==
    ~hist.initCalled
    => /\ \A t \in GuiThreads :
            gcall[t].cmd = "send_lightweight_encrypted_command"
            => gcall[t].res = "CryptoNotReady"
       /\ \A i \in 1..Len(wire) : wire[i].cmd # "send_lightweight_encrypted_command"

\* C8 as written: once spawned, the reconnect loop never stops.
C8_NeverStops == readers > 0 => rpc # "dead"

-----------------------------------------------------------------------------
(* The device (backend/src/lib.rs): the plain UART loop reads its input    *)
(* line by line and prints one Response per command.                       *)

\* send_response: the Response is printed (out is what has been printed so far)
send_response(out, status, message, response_to) ==
    Append(out, [status |-> status, message |-> message, response_to |-> response_to])

\* a dispatch that answers every action as unknown
process_command_all_unknown(out, command) ==
    send_response(out, Reply.error, Reply.msg_unknown, Some(command.action))

\* process_command: `match command.action.as_str()`
process_command(out, command) ==
    IF command.action = Reply.hello
    THEN send_response(out, Reply.hello_response, Reply.msg_hello, Some(Reply.hello))
    ELSE IF command.action = Reply.ping
    THEN send_response(out, Reply.pong, Reply.msg_pong, Some(Reply.ping))
    ELSE IF command.action = Reply.status
    THEN send_response(out, Reply.status_response, Reply.msg_status, Some(Reply.status))
    ELSE send_response(out, Reply.error, Reply.msg_unknown, Some(command.action))

\* a device that takes a line it cannot decode for a ping
process_trimmed_as_ping(out, parsed) ==
    process_command(out, IF parsed.ok THEN parsed.v ELSE [action |-> Reply.ping, data |-> None])

\* `match serde_json::from_str::<Command>(trimmed)`
process_trimmed(out, parsed) ==
    IF parsed.ok THEN process_command(out, parsed.v)
    ELSE send_response(out, Reply.error, Reply.msg_invalid_json, None)

\* process_line: a line that is empty after trim() is left unanswered
process_line(out, line) ==
    IF trim(line) = << >> THEN out
    ELSE process_trimmed(out, FromStrCommand(trim(line)))

\* the input the device is given
DevLine ==
    [ping_null |->
       <<123,34,97,99,116,105,111,110,34,58,34,112,105,110,103,34,44,34,100,97,116,97,34,58,110,117,108,108,125,10>>,
     hello |->
       <<123,34,97,99,116,105,111,110,34,58,34,104,101,108,108,111,34,125,10>>,
     status_data |->
       <<123,34,97,99,116,105,111,110,34,58,34,115,116,97,116,117,115,34,44,34,100,97,116,97,34,58,34,120,34,125,10>>,
     bogus |->
       <<123,34,97,99,116,105,111,110,34,58,34,98,111,103,117,115,34,125,10>>,
     bogus_null |->
       <<123,34,97,99,116,105,111,110,34,58,34,98,111,103,117,115,34,44,34,100,97,116,97,34,58,110,117,108,108,125,10>>,
     bogus_data |->
       <<123,34,97,99,116,105,111,110,34,58,34,98,111,103,117,115,34,44,34,100,97,116,97,34,58,34,120,34,125,10>>,
     no_action |->
       <<123,34,100,97,116,97,34,58,34,120,34,125,10>>,
     text |->
       <<104,105,10>>,
     blank |->
       <<10>>,
     spaces |->
       <<32,13,10>>,
     padded |->
       <<32,123,34,97,99,116,105,111,110,34,58,34,112,105,110,103,34,125,32,13,10>>,
     \* {"action":"ready"}
     ready |->
       <<123,34,97,99,116,105,111,110,34,58,34,114,101,97,100,121,34,125,10>>]

DevInputs ==
    { DevLine.ping_null, DevLine.hello, DevLine.status_data, DevLine.bogus,
      DevLine.bogus_null, DevLine.bogus_data, DevLine.no_action, DevLine.text,
      DevLine.blank, DevLine.spaces, DevLine.padded, DevLine.ready,
      DevLine.hello \o DevLine.ping_null, DevLine.blank \o DevLine.bogus,
      DevLine.text \o DevLine.status_data }

\* reads that end without a newline (end of stream inside a line, would-block,
\* another error) in one run, and the bytes such a read has taken before it ends
MaxDevFaults == 2
MaxCut == 2

DeviceInit ==
    /\ HostInit
    /\ fr = [on |-> FALSE]
    /\ cr = [on |-> FALSE]
    /\ dev \in { [on |-> TRUE, pc |-> "start", input |-> input, given |-> input,
                  out |-> << >>, faults |-> 0, last |-> [outcome |-> "none"]] :
                    input \in DevInputs }

\* a start that goes to the loop without the notification
DevStart_no_ready ==
    /\ dev.on /\ dev.pc = "start"
    /\ dev' = [dev EXCEPT !.pc = "read"]
    /\ UNCHANGED << hostVars, fr, cr >>

\* `send_response("ready", "ESP32 ready for commands", None)` before the loop
DevStart ==
    /\ dev.on /\ dev.pc = "start"
    /\ dev' = [dev EXCEPT !.pc = "read",
                          !.out = send_response(@, Reply.ready, Reply.msg_ready, None)]
    /\ UNCHANGED << hostVars, fr, cr >>

\* read_line returns `Ok(_)` at a newline: the line, newline included, goes to
\* process_line
DevReadLine ==
    /\ dev.on /\ dev.pc = "read"
    /\ find_newline(dev.input) > 0
    /\ dev' = [dev EXCEPT
                 !.input = SubSeq(@, find_newline(dev.input) + 1, Len(dev.input)),
                 !.out = process_line(@, SubSeq(dev.input, 1, find_newline(dev.input))),
                 !.last = [outcome |-> "line",
                           line |-> SubSeq(dev.input, 1, find_newline(dev.input)),
                           before |-> Len(dev.out)]]
    /\ UNCHANGED << hostVars, fr, cr >>

\* read_line returns `Ok(0)`: nothing was there; wait 10 ms and read again
DevReadZero ==
    /\ dev.on /\ dev.pc = "read"
    /\ dev' = [dev EXCEPT !.last = [outcome |-> "zero"]]
    /\ UNCHANGED << hostVars, fr, cr >>

\* the first n bytes of the input hold no newline
NoNewlineIn(input, n) == n <= Len(input) /\ \A q \in 1..n : input[q] # NL

\* read_line returns `Ok(n)` because the stream ended after n bytes of a line:
\* the piece goes to process_line
DevReadPiece(n) ==
    /\ dev.on /\ dev.pc = "read"
    /\ dev.faults < MaxDevFaults
    /\ NoNewlineIn(dev.input, n)
    /\ dev' = [dev EXCEPT
                 !.input = SubSeq(@, n + 1, Len(dev.input)),
                 !.out = process_line(@, SubSeq(dev.input, 1, n)),
                 !.faults = @ + 1,
                 !.last = [outcome |-> "line", line |-> SubSeq(dev.input, 1, n),
                           before |-> Len(dev.out)]]
    /\ UNCHANGED << hostVars, fr, cr >>

\* read_line returns `Err` of kind WouldBlock after it has taken n bytes: they
\* are in `line`, which `line.clear()` empties at the top of the loop
DevReadWouldBlock(n) ==
    /\ dev.on /\ dev.pc = "read"
    /\ dev.faults < MaxDevFaults
    /\ NoNewlineIn(dev.input, n)
    /\ dev' = [dev EXCEPT !.input = SubSeq(@, n + 1, Len(dev.input)),
                          !.faults = @ + 1,
                          !.last = [outcome |-> "would_block"]]
    /\ UNCHANGED << hostVars, fr, cr >>

\* read_line returns any other `Err` after it has taken n bytes: one Response
\* "UART read error occurred"
DevReadErr(n) ==
    /\ dev.on /\ dev.pc = "read"
    /\ dev.faults < MaxDevFaults
    /\ NoNewlineIn(dev.input, n)
    /\ dev' = [dev EXCEPT !.input = SubSeq(@, n + 1, Len(dev.input)),
                          !.out = send_response(@, Reply.error, Reply.msg_uart_error, None),
                          !.faults = @ + 1,
                          !.last = [outcome |-> "error"]]
    /\ UNCHANGED << hostVars, fr, cr >>

\* read_line returns `Err` of kind TimedOut after it has taken n bytes: the
\* kind is not WouldBlock, so it falls to the `_` arm like any other error
DevReadTimedOut(n) ==
    /\ dev.on /\ dev.pc = "read"
    /\ dev.faults < MaxDevFaults
    /\ NoNewlineIn(dev.input, n)
    /\ dev' = [dev EXCEPT !.input = SubSeq(@, n + 1, Len(dev.input)),
                          !.out = send_response(@, Reply.error, Reply.msg_uart_error, None),
                          !.faults = @ + 1,
                          !.last = [outcome |-> "timed_out"]]
    /\ UNCHANGED << hostVars, fr, cr >>

NextDevice ==
    \/ DevStart
    \/ DevReadLine
    \/ DevReadZero
    \/ \E n \in 1..MaxCut : DevReadPiece(n)
    \/ \E n \in 0..MaxCut : DevReadWouldBlock(n)
    \/ \E n \in 0..MaxCut : DevReadErr(n)
    \/ \E n \in 0..MaxCut : DevReadTimedOut(n)

SpecDevice == DeviceInit /\ [][NextDevice]_vars

(* End to end: the device is given the line one host call writes, the      *)
(* record of send_command or the one of send_lightweight_encrypted_command *)
(* for the same Command (dev.via, dev.command).                            *)
LinkInit ==
    /\ HostInit
    /\ fr = [on |-> FALSE]
    /\ cr = [on |-> FALSE]
    /\ \E action \in {Reply.hello, Reply.ping, Reply.status, Reply.ready},
          data \in {None, Some(Str_ok)} :
          \/ dev = [on |-> TRUE, pc |-> "start", via |-> "send_command",
                    command |-> [action |-> action, data |-> data],
                    input |-> ToStringCommand([action |-> action, data |-> data]) \o <<NL>>,
                    given |-> ToStringCommand([action |-> action, data |-> data]) \o <<NL>>,
                    out |-> << >>, faults |-> 0, last |-> [outcome |-> "none"]]
          \/ \E nonce_bytes \in {Nonce.A, Nonce.B} :
                dev = [on |-> TRUE, pc |-> "start",
                       via |-> "send_lightweight_encrypted_command",
                       command |-> [action |-> action, data |-> data],
                       input |-> ToStringEncrypted(encrypt_command(create_default_crypto,
                                    [action |-> action, data |-> data], nonce_bytes)) \o <<NL>>,
                       given |-> ToStringEncrypted(encrypt_command(create_default_crypto,
                                    [action |-> action, data |-> data], nonce_bytes)) \o <<NL>>,
                       out |-> << >>, faults |-> 0, last |-> [outcome |-> "none"]]

SpecLink == LinkInit /\ [][NextDevice]_vars

(* Properties of the device.                                               *)

\* what the last line handed to process_line was answered with
DevAnswer == SubSeq(dev.out, dev.last.before + 1, Len(dev.out))

\* the Response the dispatch table gives for a Command
Dispatched(command) ==
    IF command.action = Reply.hello
    THEN [status |-> Reply.hello_response, message |-> Reply.msg_hello,
          response_to |-> Some(Reply.hello)]
    ELSE IF command.action = Reply.ping
    THEN [status |-> Reply.pong, message |-> Reply.msg_pong, response_to |-> Some(Reply.ping)]
    ELSE IF command.action = Reply.status
    THEN [status |-> Reply.status_response, message |-> Reply.msg_status,
          response_to |-> Some(Reply.status)]
    ELSE [status |-> Reply.error, message |-> Reply.msg_unknown,
          response_to |-> Some(command.action)]

InvalidJson == [status |-> Reply.error, message |-> Reply.msg_invalid_json, response_to |-> None]

AnswerIs(parsed, answer) ==
    IF parsed.ok
    THEN /\ Len(answer) = 1
         /\ answer[1].status = Dispatched(parsed.v).status
         /\ answer[1].response_to = Dispatched(parsed.v).response_to
         /\ (parsed.v.action \notin {Reply.hello, Reply.ping, Reply.status}
               => answer[1].message = Reply.msg_unknown)
    ELSE answer = << InvalidJson >>

\* C9 as written: every line handed to process_line is answered, a line that
\* decodes as a Command by the dispatch table and any other line with
\* "Invalid JSON format".
C9_AsWritten ==
    (dev.on /\ dev.last.outcome = "line")
    => AnswerIs(FromStrCommand(trim(dev.last.line)), DevAnswer)

\* C9: a line that is blank after trimming gets no Response; a line that
\* decodes as a Command gets the Response of the dispatch table ("hello",
\* "ping", "status", and "error" / "Unknown command" / the action itself for
\* any other action, whether data is present, null or absent); any other line
\* gets "error" / "Invalid JSON format" / none.
C9_Dispatch ==
    (dev.on /\ dev.last.outcome = "line")
    => IF trim(dev.last.line) = << >> THEN DevAnswer = << >>
       ELSE AnswerIs(FromStrCommand(trim(dev.last.line)), DevAnswer)

\* a ping with data null has been answered with pong, after an earlier line
C9_Witness ==
    /\ dev.on
    /\ dev.last.outcome = "line"
    /\ dev.last.line = DevLine.ping_null
    /\ dev.last.before = 2
    /\ DevAnswer = << [status |-> Reply.pong, message |-> Reply.msg_pong,
                       response_to |-> Some(Reply.ping)] >>

-----------------------------------------------------------------------------
(* The envelope codec on its own (shared_crypto/src/lib.rs): a             *)
(* CryptoSystem decrypts an envelope it is handed, or seals a text and     *)
(* decrypts what it sealed.                                                *)

\* the seeds of create_default_crypto and of the unit tests
CryptoSeeds == { DefaultSeed, "test_key" }

\* "", "ok", "text", U+00E9 and a Response as JSON
CryptoMessages == { << >>, Str_ok, Str_text, <<195, 169>>, ToStringResponse(Response_pong) }

\* ciphertext strings: sealed texts, a sealed byte string that is not UTF-8,
\* "AAAA", "", 24 x "A", "!!!!", and "AAA" (no padding)
CiphertextStrings ==
    { encrypt(create_default_crypto, Str_ok, Nonce.A).ciphertext,
      encrypt(create_default_crypto, Str_text, Nonce.B).ciphertext,
      Base64Encode(AeadSeal(create_default_crypto.key, Nonce.A, <<255>>)),
      <<65,65,65,65>>, << >>, [q \in 1..24 |-> 65], <<33,33,33,33>>, <<65,65,65>> }

\* nonce strings: the base64 of 12 bytes (twice), of 3, 0, 9, 15 and 18
\* bytes, "!!!!", and "AAA" (no padding)
NonceStrings ==
    { Base64Encode(Nonce.A), Base64Encode(Nonce.B), <<65,65,65,65>>, << >>,
      [q \in 1..12 |-> 65], [q \in 1..20 |-> 65], [q \in 1..24 |-> 65],
      <<33,33,33,33>>, <<65,65,65>> }

\* Commands and Responses: data and response_to present and absent, an empty
\* string, quotes, a backslash, a newline, a tab and non-ASCII text
CryptoCommands ==
    { [action |-> Reply.ping, data |-> None],
      [action |-> Reply.hello, data |-> Some(Str_text)],
      [action |-> <<97,34,98,92,99>>, data |-> Some(<< >>)],
      [action |-> << >>, data |-> Some(<<10,9,195,169,34>>)] }

CryptoResponses ==
    { Response_pong,
      [status |-> Reply.ready, message |-> Reply.msg_ready, response_to |-> None],
      [status |-> <<92,92>>, message |-> Reply.msg_pong, response_to |-> Some(<<34>>)],
      [status |-> << >>, message |-> <<13,10>>, response_to |-> Some(<< >>)] }

CryptoNonces == { Nonce.A, Nonce.B, Nonce.C }

(* cr: self is the CryptoSystem, encrypted the envelope at hand, sealed what *)
(* it was made from (if it was made here), op and result the last call made *)
(* and what it returned.                                                    *)
CryptoInit ==
    /\ HostInit
    /\ fr = [on |-> FALSE]
    /\ dev = [on |-> FALSE]
    /\ cr \in { [on |-> TRUE, pc |-> "given", self |-> CryptoSystem_new(seed),
                 encrypted |-> [ciphertext |-> c, nonce |-> n],
                 sealed |-> [kind |-> "none"], op |-> "none",
                 result |-> [res |-> "none"]] :
                   seed \in CryptoSeeds, c \in CiphertextStrings, n \in NonceStrings }

\* CryptoSystem::encrypt of plaintext, with the nonce OsRng draws
CrEncrypt(plaintext, nonce_bytes) ==
    /\ cr.on /\ cr.pc = "given" /\ cr.sealed.kind = "none"
    /\ cr' = [cr EXCEPT !.pc = "sealed",
                        !.sealed = [kind |-> "text", v |-> plaintext],
                        !.encrypted = encrypt(cr.self, plaintext, nonce_bytes)]
    /\ UNCHANGED << hostVars, fr, dev >>

\* CryptoSystem::encrypt_command
CrEncryptCommand(command, nonce_bytes) ==
    /\ cr.on /\ cr.pc = "given" /\ cr.sealed.kind = "none"
    /\ cr' = [cr EXCEPT !.pc = "sealed",
                        !.sealed = [kind |-> "command", v |-> command],
                        !.encrypted = encrypt_command(cr.self, command, nonce_bytes)]
    /\ UNCHANGED << hostVars, fr, dev >>

\* CryptoSystem::encrypt_response
CrEncryptResponse(response, nonce_bytes) ==
    /\ cr.on /\ cr.pc = "given" /\ cr.sealed.kind = "none"
    /\ cr' = [cr EXCEPT !.pc = "sealed",
                        !.sealed = [kind |-> "response", v |-> response],
                        !.encrypted = encrypt_response(cr.self, response, nonce_bytes)]
    /\ UNCHANGED << hostVars, fr, dev >>

\* the envelope comes back from the wire with bit `bit` of character `pos` of
\* its ciphertext or its nonce changed (the strings are ASCII: bits 0..6)
CrTamper(field, pos, bit) ==
    /\ cr.on /\ cr.pc = "sealed" /\ cr.sealed.kind = "text"
    /\ cr' = [cr EXCEPT !.pc = "tampered", !.sealed.kind = "tampered",
                        !.encrypted[field][pos] =
                            IF (@ \div 2^bit) % 2 = 1 THEN @ - 2^bit ELSE @ + 2^bit]
    /\ UNCHANGED << hostVars, fr, dev >>

\* CryptoSystem::decrypt of the envelope
CrDecrypt ==
    /\ cr.on /\ cr.pc # "done"
    /\ cr' = [cr EXCEPT !.pc = "done", !.op = "decrypt",
                        !.result = decrypt(cr.self, cr.encrypted)]
    /\ UNCHANGED << hostVars, fr, dev >>

\* CryptoSystem::decrypt_to_command of the envelope
CrDecryptToCommand ==
    /\ cr.on /\ cr.pc \in {"given", "sealed"}
    /\ cr' = [cr EXCEPT !.pc = "done", !.op = "decrypt_to_command",
                        !.result = decrypt_to_command(cr.self, cr.encrypted)]
    /\ UNCHANGED << hostVars, fr, dev >>

\* CryptoSystem::decrypt_to_response of the envelope
CrDecryptToResponse ==
    /\ cr.on /\ cr.pc \in {"given", "sealed"}
    /\ cr' = [cr EXCEPT !.pc = "done", !.op = "decrypt_to_response",
                        !.result = decrypt_to_response(cr.self, cr.encrypted)]
    /\ UNCHANGED << hostVars, fr, dev >>

\* the plain codec: serde_json::to_string of a Command or a Response, and
\* serde_json::from_str of the text
CrCodecCommand(command) ==
    /\ cr.on /\ cr.pc = "given" /\ cr.sealed.kind = "none"
    /\ cr' = [cr EXCEPT !.pc = "decoded", !.op = "from_str",
                        !.sealed = [kind |-> "command", v |-> command],
                        !.result = FromStrCommand(ToStringCommand(command))]
    /\ UNCHANGED << hostVars, fr, dev >>

CrCodecResponse(response) ==
    /\ cr.on /\ cr.pc = "given" /\ cr.sealed.kind = "none"
    /\ cr' = [cr EXCEPT !.pc = "decoded", !.op = "from_str",
                        !.sealed = [kind |-> "response", v |-> response],
                        !.result = FromStrResponse(ToStringResponse(response))]
    /\ UNCHANGED << hostVars, fr, dev >>

NextCrypto ==
    \/ \E plaintext \in CryptoMessages, nonce_bytes \in CryptoNonces :
          CrEncrypt(plaintext, nonce_bytes)
    \/ \E command \in CryptoCommands, nonce_bytes \in CryptoNonces :
          CrEncryptCommand(command, nonce_bytes)
    \/ \E response \in CryptoResponses, nonce_bytes \in CryptoNonces :
          CrEncryptResponse(response, nonce_bytes)
    \/ \E field \in {"ciphertext", "nonce"} :
          \E pos \in 1..Len(cr.encrypted[field]), bit \in 0..6 : CrTamper(field, pos, bit)
    \/ CrDecrypt
    \/ CrDecryptToCommand
    \/ CrDecryptToResponse
    \/ \E command \in CryptoCommands : CrCodecCommand(command)
    \/ \E response \in CryptoResponses : CrCodecResponse(response)

SpecCrypto == CryptoInit /\ [][NextCrypto]_vars

\* C10 as written: decrypt returns for every envelope, with the plaintext or
\* with one of its three errors.
C10_AlwaysReturns ==
    (cr.on /\ cr.pc = "done") => cr.result.res \in {"Ok", "Err"}

\* C11: decrypt of what encrypt made of a UTF-8 text, under the same key,
\* returns Ok with exactly that text.
C11_RoundTrip ==
    (cr.on /\ cr.pc = "done" /\ cr.op = "decrypt" /\ cr.sealed.kind = "text")
    => cr.result = [res |-> "Ok", v |-> cr.sealed.v]

\* a two-byte character has gone through encrypt and decrypt under the key of
\* the seed "test_key"
C11_Witness ==
    /\ cr.on /\ cr.pc = "done" /\ cr.op = "decrypt"
    /\ cr.self = CryptoSystem_new("test_key")
    /\ cr.sealed = [kind |-> "text", v |-> <<195, 169>>]
    /\ cr.result = [res |-> "Ok", v |-> <<195, 169>>]

\* C12: a Command (data present or none) and a Response (response_to present
\* or none) come back equal from the plain codec (to_string, from_str) and from
\* the encrypted helpers (encrypt_command / decrypt_to_command,
\* encrypt_response / decrypt_to_response).
C12_CodecRoundTrip ==
    /\ (cr.on /\ cr.pc = "decoded") => cr.result = [ok |-> TRUE, v |-> cr.sealed.v]
    /\ (cr.on /\ cr.pc = "done" /\ cr.sealed.kind = "command"
           /\ cr.op = "decrypt_to_command")
       => cr.result = [res |-> "Ok", v |-> cr.sealed.v]
    /\ (cr.on /\ cr.pc = "done" /\ cr.sealed.kind = "response"
           /\ cr.op = "decrypt_to_response")
       => cr.result = [res |-> "Ok", v |-> cr.sealed.v]

\* a Command whose action holds a quote and a backslash has come back from
\* decrypt_to_command
C12_Witness ==
    /\ cr.on /\ cr.pc = "done" /\ cr.op = "decrypt_to_command"
    /\ cr.sealed.kind = "command"
    /\ cr.sealed.v = [action |-> <<97,34,98,92,99>>, data |-> Some(<< >>)]
    /\ cr.result.res = "Ok"
    /\ cr.result.v = cr.sealed.v

\* C13 as written: decrypt of an envelope that encrypt made and of which one
\* bit of the ciphertext or of the nonce was changed returns DecryptionFailed
\* or Base64DecodeFailed.
C13_TamperDetected ==
    (cr.on /\ cr.pc = "done" /\ cr.op = "decrypt" /\ cr.sealed.kind = "tampered")
    => /\ cr.result.res = "Err"
       /\ cr.result.e \in {"DecryptionFailed", "Base64DecodeFailed"}

\* C17: until the device has printed the ready Response it has read nothing
\* and printed nothing; from then on the first Response printed is "ready" with
\* response_to none, and no later Response has the status "ready".
C17_ReadyFirst ==
    dev.on =>
        IF dev.pc = "start"
        THEN dev.out = << >> /\ dev.input \in DevInputs /\ dev.last.outcome = "none"
        ELSE /\ Len(dev.out) >= 1
             /\ dev.out[1] = [status |-> Reply.ready, message |-> Reply.msg_ready,
                              response_to |-> None]
             /\ \A i \in 2..Len(dev.out) : dev.out[i].status # Reply.ready

\* the command "ready" has been answered, as an unknown command, after the
\* ready Response
C17_Witness ==
    /\ dev.on
    /\ dev.last.outcome = "line"
    /\ dev.last.line = DevLine.ready
    /\ dev.out = << [status |-> Reply.ready, message |-> Reply.msg_ready,
                      response_to |-> None],
                    [status |-> Reply.error, message |-> Reply.msg_unknown,
                      response_to |-> Some(Reply.ready)] >>

(* Properties of the read loop.  hist.lines holds the non-empty lines the   *)
(* last read with data completed, events what was emitted for them.        *)

Kinds == [i \in 1..Len(events) |-> events[i].kind]

\* the line of a chunk that is one whole line
LineOf(chunk) == trim(chunk)

Response_bare == [status |-> Reply.pong, message |-> Str_ok, response_to |-> None]

\* C15 as written: a plain Response, a decrypted message and a raw line are
\* each published under a kind of their own (response-received,
\* encrypted-message-received, raw-message) and under neither of the other two.
C15_AsWritten ==
    \A i \in 1..Len(hist.lines) :
        /\ events # << >>
        /\ hist.lines[i] \in {LineOf(Line.plain), LineOf(Line.response_with_envelope)}
           => \A k \in 1..Len(Kinds) : Kinds[k] = "response-received"
        /\ hist.lines[i] \in {LineOf(Line.sealed_response), LineOf(Line.sealed_text)}
           => \A k \in 1..Len(Kinds) : Kinds[k] = "encrypted-message-received"
        /\ hist.lines[i] = LineOf(Line.raw)
           => \A k \in 1..Len(Kinds) : Kinds[k] = "raw-message"

\* C15: every non-empty line causes at least one event.  A plain Response
\* causes one response-received event; a line that is an EncryptedMessage
\* causes one encrypted-message-received event, whether or not it can be
\* decrypted, followed by a response-received event when the decrypted text
\* is a Response; a raw line causes one raw-message event.  So
\* encrypted-message-received and raw-message each belong to one outcome, and
\* response-received is shared by plain and decrypted Responses.
C15_EventKinds ==
    \A i \in 1..Len(hist.lines) :
        /\ events # << >>
        /\ hist.lines[i] = LineOf(Line.plain)
           => events = << [kind |-> "response-received", payload |-> Response_pong] >>
        /\ hist.lines[i] = LineOf(Line.response_with_envelope)
           => events = << [kind |-> "response-received", payload |-> Response_bare] >>
        /\ hist.lines[i] = LineOf(Line.sealed_response)
           => /\ Kinds = << "encrypted-message-received", "response-received" >>
              /\ events[2].payload = Response_pong
        /\ hist.lines[i] \in {LineOf(Line.sealed_text), LineOf(Line.bad_base64),
                              LineOf(Line.empty_nonce)}
           => Kinds = << "encrypted-message-received" >>
        /\ hist.lines[i] = LineOf(Line.raw)
           => events = << [kind |-> "raw-message", payload |-> LineOf(Line.raw)] >>

\* the line that is a sealed Response has been read: two events
C15_Witness ==
    /\ rpc = "read"
    /\ hist.lines = << LineOf(Line.sealed_response) >>
    /\ Kinds = << "encrypted-message-received", "response-received" >>
    /\ msg_state = Prefix.decrypted \o Str_ok

\* C18: in the read loop a read of zero bytes and a timeout leave the slot
\* published, the delay and the buffer as they were and the loop reading; any
\* other read error leads to the clearing of the slot, from there to the
\* sleep of the current delay, and only from there to the next open.
C18_ReadOutcomes ==
    /\ rpc = "none"
    /\ [][/\ (rpc = "read" /\ hist'.read # hist.read /\ hist'.read \in {"zero", "timeout"})
             => /\ rpc' = "read"
                /\ serial_port = "Some" /\ serial_port' = "Some"
                /\ reconnect_delay' = reconnect_delay
                /\ line_buffer' = line_buffer
          /\ (rpc = "read" /\ hist'.read # hist.read /\ hist'.read = "error")
             => rpc' = "clear" /\ serial_port' = "Some"
          /\ (rpc = "clear" /\ rpc' # "clear")
             => rpc' = "sleep" /\ serial_port' = "None" /\ hist'.cause = "lost"
          /\ (rpc = "sleep" /\ rpc' # "sleep")
             => rpc' = "open" /\ hist'.slept = reconnect_delay /\ reconnect_delay >= 1
          /\ (rpc' = "open" /\ rpc # "open")
             => rpc \in {"sleep", "none"}]_vars

\* after a read error the slot is empty, the delay has been slept and the
\* thread is about to open the port again
C18_Witness ==
    /\ rpc = "open"
    /\ hist.read = "error"
    /\ hist.cause = "lost"
    /\ hist.slept = 1
    /\ serial_port = "None"

\* C19 as written: a line that decodes as a Response is handled as a plain
\* Response, envelope fields or not; else a line that decodes as an
\* EncryptedMessage is decrypted and the text handled as a Response or
\* verbatim; else the line is raw; and no line ends the read loop.
C19_ClassifiedInOrder ==
    \A i \in 1..Len(hist.lines) :
        /\ hist.panic # "from_slice"
        /\ hist.lines[i] \in {LineOf(Line.plain), LineOf(Line.response_with_envelope)}
           => Kinds = << "response-received" >> /\ msg_state = Prefix.plain \o Str_ok
        /\ hist.lines[i] = LineOf(Line.sealed_response)
           => /\ Kinds = << "encrypted-message-received", "response-received" >>
              /\ msg_state = Prefix.decrypted \o Str_ok
        /\ hist.lines[i] = LineOf(Line.sealed_text)
           => /\ Kinds = << "encrypted-message-received" >>
              /\ msg_state = Prefix.decrypted \o Str_text
        /\ hist.lines[i] = LineOf(Line.raw)
           => Kinds = << "raw-message" >> /\ msg_state = LineOf(Line.raw)

\* msg is line behind a prefix that is neither the plain nor the decrypted one
HasOwnPrefix(msg, line) ==
    /\ Len(msg) > Len(line)
    /\ SubSeq(msg, Len(msg) - Len(line) + 1, Len(msg)) = line
    /\ SubSeq(msg, 1, Len(msg) - Len(line)) \notin {Prefix.plain, Prefix.decrypted}

\* the cached message is that of the last line processed, behind the prefix of
\* its origin
CacheOfLastLine ==
    \A i \in 1..Len(hist.lines) :
        /\ hist.lines[i] \in {LineOf(Line.plain), LineOf(Line.response_with_envelope)}
           => msg_state = Prefix.plain \o Str_ok
        /\ hist.lines[i] = LineOf(Line.sealed_response)
           => msg_state = Prefix.decrypted \o Str_ok
        /\ hist.lines[i] = LineOf(Line.sealed_text)
           => msg_state = Prefix.decrypted \o Str_text
        /\ hist.lines[i] \in {LineOf(Line.bad_base64), LineOf(Line.empty_nonce)}
           => StartsWith(msg_state, 1, Prefix.decrypt_error)
        /\ hist.lines[i] = LineOf(Line.raw)
           => HasOwnPrefix(msg_state, LineOf(Line.raw))

\* C20 as written: after every line the cached message is that line's message
\* behind the prefix of its origin (one prefix for plain, one for decrypted,
\* one for raw), and get_message returns the cached message.
C20_LastMessage ==
    /\ CacheOfLastLine
    /\ [][/\ CacheOfLastLine'
          /\ \A t \in GuiThreads : GetMessage(t) => (gcall'[t].res = "Some" /\ gcall'[t].v = msg_state)]_vars

\* C16: every call of send_command or send_lightweight_encrypted_command that
\* has gone on to the connection slot returns, with Ok or an error string,
\* whatever the reconnect thread and the other caller do.
C16_SendReturns ==
    \A t \in GuiThreads :
        (gpc[t] \in {"send_lock", "send_locked", "send_written"})
        ~> (gpc[t] = "idle" /\ gcall[t].res \in {"Ok", "NotConnected", "WriteFailed"})

\* while the link is down after a read error one caller has been told that
\* the port is not connected, and the other had sent its command before
C16_Witness ==
    /\ rpc = "sleep"
    /\ hist.cause = "lost"
    /\ gpc["gui1"] = "idle" /\ gcall["gui1"].res = "NotConnected"
    /\ gpc["gui2"] = "idle" /\ gcall["gui2"].res = "Ok"

\* C21 as written: no thread does port I/O or sleeps while it holds the
\* connection-slot lock; a caller that has written its line to the port, and
\* has the flush and the 50 ms sleep before it, does not hold the lock.
C21_NoIoUnderLock ==
    \A t \in GuiThreads : gpc[t] = "send_written" => serial_lock # t

\* C22 as written: a read that ends with end of stream, would-block or a
\* timeout prints no Response, any other read error prints exactly one
\* Response "error" / "UART read error occurred", and after each of them the
\* loop is reading again.
C22_ReadOutcomes ==
    [][/\ (\/ DevReadZero
           \/ \E n \in 0..MaxCut : DevReadWouldBlock(n)
           \/ \E n \in 0..MaxCut : DevReadTimedOut(n))
          => (dev'.out = dev.out /\ dev'.pc = "read")
       /\ (\E n \in 0..MaxCut : DevReadErr(n))
          => /\ dev'.out = Append(dev.out, [status |-> Reply.error,
                                            message |-> Reply.msg_uart_error,
                                            response_to |-> None])
             /\ dev'.pc = "read"]_vars

\* C23: a send call that holds a published handle and returns without having
\* written its record returns the write error, and the step leaves the wire,
\* the slot, the delay and the reconnect thread's position as they were; the
\* slot is emptied only by the reconnect thread's own clearing step, during
\* which no caller moves.
C23_FailedWrite ==
    [][/\ \A t \in GuiThreads :
            (/\ gpc[t] = "send_locked" /\ serial_port = "Some"
             /\ gpc'[t] = "idle")
            => /\ gcall'[t].res = "WriteFailed"
               /\ wire' = wire
               /\ serial_port' = "Some"
               /\ reconnect_delay' = reconnect_delay
               /\ rpc' = rpc
       /\ (serial_port = "Some" /\ serial_port' = "None")
            => (rpc = "clear" /\ rpc' = "sleep" /\ gpc' = gpc)]_vars

\* a write has failed while the reconnect thread was reading: the caller has
\* its error, the slot still holds the handle and nothing is on the wire
C23_Witness ==
    /\ gpc["gui1"] = "idle"
    /\ gcall["gui1"] = [cmd |-> "send_command", res |-> "WriteFailed"]
    /\ serial_port = "Some"
    /\ rpc = "read"
    /\ wire = << >>

(* Properties of the wire.                                                 *)

\* the bytes of a sequence of pieces
RECURSIVE BytesOf(_)
BytesOf(pieces) ==
    IF pieces = << >> THEN << >> ELSE Head(pieces).bytes \o BytesOf(Tail(pieces))

\* the pieces on the wire stand call by call, in the order the calls took the
\* slot lock
InLockOrder ==
    \A i, j \in 1..Len(hist.sent) : i < j => hist.sent[i].k <= hist.sent[j].k

\* C24 as written: the calls' bytes are not interleaved and stand in lock
\* order, and what a call has put on the wire is its whole newline-terminated
\* record.
C24_AsWritten ==
    /\ InLockOrder
    /\ serial_lock = Free
         => \A k \in 1..Len(hist.order) :
                PiecesOf(k) # << >> => BytesOf(PiecesOf(k)) = hist.order[k].line

\* C24: the bytes the calls write are never interleaved: the wire is one
\* block per call, in the order the calls took the slot lock; the block is a
\* leading part of the call's record, and the whole record once write_all has
\* returned Ok.
C24_NoInterleaving ==
    /\ InLockOrder
    /\ \A k \in 1..Len(hist.order) :
           /\ Len(BytesOf(PiecesOf(k))) <= Len(hist.order[k].line)
           /\ StartsWith(hist.order[k].line, 1, BytesOf(PiecesOf(k)))
    /\ \A t \in GuiThreads :
           gpc[t] = "send_written"
           => BytesOf(PiecesOf(CallOf(t))) = hist.order[CallOf(t)].line

\* two calls have written, each in two pieces, the sealed record of gui2
\* behind the plain record of gui1
C24_Witness ==
    /\ Len(hist.order) = 2
    /\ hist.order[1].by = "gui1" /\ hist.order[2].by = "gui2"
    /\ [i \in 1..Len(hist.sent) |-> hist.sent[i].k] = << 1, 1, 2, 2 >>
    /\ BytesOf(hist.sent) = plain_line[Reply.ping, None]
                               \o sealed_line[Reply.ping, None, Nonce.A]
    /\ gpc["gui1"] = "idle" /\ gpc["gui2"] = "send_written"

(* Properties of the device's reading.  dev.given is the input the device   *)
(* was given, dev.input what is left of it.                                *)

\* what process_line prints for the whole lines of input, one after another
RECURSIVE Answers(_, _)
Answers(out, input) ==
    IF find_newline(input) = 0 THEN out
    ELSE Answers(process_line(out, SubSeq(input, 1, find_newline(input))),
                 SubSeq(input, find_newline(input) + 1, Len(input)))

\* C25 as written: when the input has been read, with reads that ended at an
\* end of stream or a would-block anywhere and with no read error, the device
\* has printed, after "ready", one Response per non-blank line, in line order
\* and each from the whole line, and nothing for a blank line.
C25_WholeLines ==
    (/\ dev.on /\ dev.pc = "read" /\ dev.input = << >>
     /\ \A i \in 1..Len(dev.out) : dev.out[i].message # Reply.msg_uart_error)
    => dev.out = Answers(<< [status |-> Reply.ready, message |-> Reply.msg_ready,
                             response_to |-> None] >>, dev.given)

====
